---- MODULE Spec2Model ----
(***************************************************************************)
(* Model of the S3-FTP transfer tool (utils/s3_ftp_transfer/ftp_transfer.py)*)
(* and of the object-store copy tool                                        *)
(* (utils/s3_operations/version-aware-cleanup.py).                          *)
(*                                                                          *)
(* Byte quantities are Python integers (unbounded).  TLC integers are 32    *)
(* bits wide, so a byte quantity is a two-limb natural <<hi, lo>> standing  *)
(* for hi * LimbBase + lo, with exact arithmetic on it (W... operators).    *)
(* All sizes of the model stay below 2^46 bytes (64 TiB), where the float   *)
(* divisions of the source (math.ceil(a / b)) are exact.                    *)
(***************************************************************************)
EXTENDS Integers, Sequences, FiniteSets, TLC

VARIABLES
    protocol,            \* self.protocol
    ftp_connection,      \* self.ftp_connection: "None" or the protocol connected
    ftp_file_size,       \* size of the source (ftp file / source object), or None
    chunk_size,          \* the caller's chunk_size argument, or None
    optimal_chunk_size,  \* the planned chunk (part) size, or None
    pc,                  \* position of the running function
    multipart_upload,    \* 0 (None) or the upload id of the session created
    parts,               \* the local list `parts`: part numbers appended so far
    i,                   \* the loop variable of the part loop
    result,              \* what the function returned: "none", "True", "False";
                         \* the pair <<success, total>> of transfer_s3_to_synapse
    s3_dest,             \* the object visible at the destination key
    calls,               \* every call issued to the object store / source, in order
    run,                 \* how many times the operation was started
    mode,                \* "upload" | "copy" | "main": which tool is running
    args,                \* main(): the parsed command line
    attempts,            \* connect_ftp(): the protocols tried, in order
    exit_code,           \* main(): -1 while running, then the process exit code
    src_size,            \* the size of the source file / source object; None if absent
    file_pos,            \* read position of the open SFTP file `ftp_file`
    chunk,               \* the bytes last read from the source: [first, stop)
    prev_result,         \* what the previous run of the operation returned
    s3_before,           \* the object at the destination key when this run started
    store,               \* the keys of the objects in the bucket (folder markers end in "/")
    matched_files,       \* the units of the batch: `matched_files` / `files`
    success_count,       \* `success_count` (process_files), `success` (bulk loops)
    failed_count,        \* `failed_count` (process_files)
    dest_exists,         \* process_files: the local `dest_exists`
    reported,            \* the "source -> destination" lines a dry run has logged
    stack,               \* process_files: the calls that wait for a recursive call
    source_prefix,       \* process_files: the source_prefix of the running call
    versions,            \* copy_file: the sizes of the versions of the source key, newest first
    temp_file,           \* a download: the bytes in hand (file_data, chunk, temp_file)
    remote_file          \* a download: the bytes of the file written at ftp_path

connVars == <<protocol, ftp_connection, args, attempts, exit_code>>

runVars == <<src_size, chunk_size, mode, run, prev_result, s3_before, temp_file,
             remote_file, versions>>

batchVars == <<store, matched_files, success_count, failed_count, dest_exists,
               reported, stack, source_prefix>>

envVars == <<runVars, batchVars>>

vars == <<protocol, ftp_connection, ftp_file_size, chunk_size, optimal_chunk_size,
          pc, multipart_upload, parts, i, result, s3_dest, calls, run, mode,
          args, attempts, exit_code, src_size, file_pos, chunk, prev_result,
          s3_before, store, matched_files, success_count, failed_count,
          dest_exists, reported, stack, source_prefix, temp_file, remote_file,
          versions>>

-----------------------------------------------------------------------------
(* Exact arithmetic on two-limb naturals.                                   *)

LimbBase == 2^16

\* Python None where a byte quantity is expected.
None == <<-1, 0>>

Wide(n) == <<n \div LimbBase, n % LimbBase>>

WNorm(h, l) == <<h + (l \div LimbBase), l % LimbBase>>

WAdd(a, b) == WNorm(a[1] + b[1], a[2] + b[2])

\* a - b for a >= b
WSub(a, b) ==
    IF a[2] >= b[2] THEN <<a[1] - b[1], a[2] - b[2]>>
    ELSE <<a[1] - b[1] - 1, a[2] + LimbBase - b[2]>>

\* a * m for a small multiplier m (m < 2^15)
WMul(a, m) == WNorm(a[1] * m, a[2] * m)

\* a // m and a % m for a small divisor m (m < 2^15)
WDiv(a, m) == <<a[1] \div m, (((a[1] % m) * LimbBase) + a[2]) \div m>>

WMod(a, m) == (((a[1] % m) * LimbBase) + a[2]) % m

WLt(a, b) == a[1] < b[1] \/ (a[1] = b[1] /\ a[2] < b[2])

WLe(a, b) == a = b \/ WLt(a, b)

WMax(a, b) == IF WLt(a, b) THEN b ELSE a

WMin(a, b) == IF WLt(b, a) THEN b ELSE a

\* divmod(a, b) for two-limb a and b > 0, by shift and subtract.
RECURSIVE WDivMod(_, _)
WDivMod(a, b) ==
    IF WLt(a, b) THEN [q |-> 0, r |-> a]
    ELSE LET h == WDivMod(a, WAdd(b, b))
         IN  IF WLe(b, h.r) THEN [q |-> 2 * h.q + 1, r |-> WSub(h.r, b)]
             ELSE [q |-> 2 * h.q, r |-> h.r]

\* int(math.ceil(a / float(b)))
CeilDiv(a, b) ==
    LET d == WDivMod(a, b) IN IF d.r = Wide(0) THEN d.q ELSE d.q + 1

\* math.ceil(a / m) for a small divisor m
WCeilDiv(a, m) ==
    IF WMod(a, m) = 0 THEN WDiv(a, m) ELSE WAdd(WDiv(a, m), Wide(1))

MiB == WMul(Wide(1024), 1024)

-----------------------------------------------------------------------------
(* Chunk planner: S3FTPTransfer._calculate_optimal_chunk_size               *)

DEFAULT_CHUNK_SIZE == Wide(104857600)

MIN_CHUNK_SIZE == WMul(WMul(Wide(5), 1024), 1024)

MAX_PARTS == 10000

\* A planner that forgets the part-count term.
calculate_optimal_chunk_size_NoPartCount(file_size, user_chunk_size) ==
    IF user_chunk_size # None /\ user_chunk_size # Wide(0)
         /\ WLe(MIN_CHUNK_SIZE, user_chunk_size)
    THEN user_chunk_size
    ELSE WMax(DEFAULT_CHUNK_SIZE, MIN_CHUNK_SIZE)

\* `if user_chunk_size and user_chunk_size >= MIN_CHUNK_SIZE`: None and 0 are falsy.
_calculate_optimal_chunk_size(file_size, user_chunk_size) ==
    IF user_chunk_size # None /\ user_chunk_size # Wide(0)
         /\ WLe(MIN_CHUNK_SIZE, user_chunk_size)
    THEN user_chunk_size
    ELSE LET min_required_chunk_size == WCeilDiv(file_size, MAX_PARTS)
             optimal_chunk_size_1 == WMax(min_required_chunk_size, DEFAULT_CHUNK_SIZE)
         IN  WMax(optimal_chunk_size_1, MIN_CHUNK_SIZE)

-----------------------------------------------------------------------------
(* The calls the tools issue, and the destination object.                   *)

\* One call: its name, the part number and the source bytes [first, stop) it
\* carries (when it carries any), whether it succeeded, and the part list
\* handed to complete_multipart_upload.
Call(op, n, first, stop, ok, ps) ==
    [op |-> op, n |-> n, first |-> first, stop |-> stop, ok |-> ok, ps |-> ps]

Simple(op, ok) == Call(op, 0, None, None, ok, <<>>)

NoChunk == [first |-> None, stop |-> None]

NoObject == [exists |-> FALSE, size |-> None, by |-> 0, ranges |-> <<>>]

\* An object that was at the destination key before the operation started.
Old(sz) == [exists |-> TRUE, size |-> sz, by |-> 0, ranges |-> <<>>]

\* The body stored for part n of the open session: that of its successful upload.
PartBody(n) ==
    LET j == CHOOSE k \in 1..Len(calls) :
                 /\ calls[k].op \in {"upload_part", "upload_part_copy"}
                 /\ calls[k].n = n /\ calls[k].ok
    IN  [first |-> calls[j].first, stop |-> calls[j].stop]

RECURSIVE TotalLen(_)
TotalLen(rs) ==
    IF rs = <<>> THEN Wide(0)
    ELSE WAdd(WSub(Head(rs).stop, Head(rs).first), TotalLen(Tail(rs)))

\* The object a successful complete_multipart_upload(Parts = ps) makes visible.
Assembled(ps) ==
    LET rs == [k \in 1..Len(ps) |-> PartBody(ps[k])]
    IN  [exists |-> TRUE, size |-> TotalLen(rs), by |-> run, ranges |-> rs]

\* The object a successful put of the bytes b makes visible.
Stored(b) ==
    [exists |-> TRUE, size |-> WSub(b.stop, b.first), by |-> run, ranges |-> <<b>>]

\* A chunk count that rounds down.
chunk_count_Floor == WDivMod(ftp_file_size, optimal_chunk_size).q

\* chunk_count = int(math.ceil(ftp_file_size / float(chunk_size)))
chunk_count == CeilDiv(ftp_file_size, optimal_chunk_size)

-----------------------------------------------------------------------------
(* S3FTPTransfer.upload_to_s3                                               *)

\* Locals of the running transfer function.
locals == <<ftp_file_size, optimal_chunk_size, multipart_upload, parts, i,
            file_pos, chunk>>

Return(value) == result' = value /\ pc' = "done"

\* ftp_file_size = self.get_file_size_ftp(ftp_path): None when the stat/SIZE
\* call raises; `if ftp_file_size is None: return False`.
upload_to_s3_size ==
    /\ mode = "upload" /\ pc = "upload_to_s3"
    /\ \E ok \in BOOLEAN :
          LET size == IF ok THEN src_size ELSE None
          IN  /\ calls' = Append(calls, Simple("stat", size # None))
              /\ ftp_file_size' = size
              /\ IF size = None THEN Return("False")
                 ELSE result' = result /\ pc' = "plan"
    /\ UNCHANGED <<optimal_chunk_size, multipart_upload, parts, i, file_pos, chunk>>
    /\ UNCHANGED <<s3_dest, connVars, envVars>>

\* optimal_chunk_size = self._calculate_optimal_chunk_size(ftp_file_size, chunk_size)
upload_to_s3_plan ==
    /\ pc = "plan"
    /\ optimal_chunk_size' = _calculate_optimal_chunk_size(ftp_file_size, chunk_size)
    /\ pc' = "head_object"
    /\ UNCHANGED <<ftp_file_size, multipart_upload, parts, i, file_pos, chunk>>
    /\ UNCHANGED <<result, calls, s3_dest, connVars, envVars>>

\* The per-protocol upload function upload_to_s3 hands over to.
Dispatch == IF protocol = "sftp" THEN "sftp_open" ELSE "ftp_branch"

\* An upload that ignores what head_object answers.
upload_to_s3_head_NoSkip ==
    /\ pc = "head_object"
    /\ \E ok \in BOOLEAN :
          calls' = Append(calls, Simple("head_object", ok /\ s3_dest.exists))
    /\ result' = result /\ pc' = Dispatch
    /\ UNCHANGED <<locals, s3_dest, connVars, envVars>>

\* try: head_object ... `== ftp_file_size`: return True / except Exception: pass,
\* then the dispatch on self.protocol.
upload_to_s3_head ==
    /\ pc = "head_object"
    /\ \E ok \in BOOLEAN :
          LET found == ok /\ s3_dest.exists
          IN  /\ calls' = Append(calls, Simple("head_object", found))
              /\ IF found /\ s3_dest.size = ftp_file_size THEN Return("True")
                 ELSE result' = result /\ pc' = Dispatch
    /\ UNCHANGED <<locals, s3_dest, connVars, envVars>>

-----------------------------------------------------------------------------
(* S3FTPTransfer._upload_sftp_to_s3                                         *)

\* The exception handler that forgets to abort the session.
upload_sftp_except_NoAbort ==
    /\ pc = "sftp_except"
    /\ Return("False")
    /\ UNCHANGED <<calls, locals, s3_dest, connVars, envVars>>

\* except Exception: `if multipart_upload:` abort (a failing abort is logged);
\* return False
upload_sftp_except ==
    /\ pc = "sftp_except"
    /\ IF multipart_upload # 0
       THEN \E ok \in BOOLEAN :
               calls' = Append(calls, Simple("abort_multipart_upload", ok))
       ELSE calls' = calls
    /\ Return("False")
    /\ UNCHANGED <<locals, s3_dest, connVars, envVars>>

\* ftp_file = self.ftp_connection.file(ftp_path, 'r'); `if ftp_file_size <= chunk_size`
upload_sftp_open ==
    /\ pc = "sftp_open"
    /\ \E ok \in BOOLEAN :
          /\ calls' = Append(calls, Simple("open", ok))
          /\ pc' = IF ~ok THEN "sftp_except"
                   ELSE IF WLe(ftp_file_size, optimal_chunk_size) THEN "sftp_read"
                   ELSE "sftp_create"
    /\ file_pos' = Wide(0) /\ multipart_upload' = 0
    /\ UNCHANGED <<ftp_file_size, optimal_chunk_size, parts, i, chunk>>
    /\ UNCHANGED <<result, s3_dest, connVars, envVars>>

\* ftp_file_data = ftp_file.read(): everything from the read position to the end
upload_sftp_read ==
    /\ pc = "sftp_read"
    /\ \E ok \in BOOLEAN :
          /\ calls' = Append(calls, Call("read", 0, file_pos, ftp_file_size, ok, <<>>))
          /\ IF ok THEN /\ chunk' = [first |-> file_pos, stop |-> ftp_file_size]
                        /\ file_pos' = ftp_file_size
                        /\ pc' = "sftp_put"
             ELSE UNCHANGED <<chunk, file_pos>> /\ pc' = "sftp_except"
    /\ UNCHANGED <<ftp_file_size, optimal_chunk_size, multipart_upload, parts, i>>
    /\ UNCHANGED <<result, s3_dest, connVars, envVars>>

\* self.s3_client.upload_fileobj(ftp_file_data_bytes, s3_bucket, s3_key)
upload_sftp_put ==
    /\ pc = "sftp_put"
    /\ \E ok \in BOOLEAN :
          /\ calls' = Append(calls,
                 Call("upload_fileobj", 0, chunk.first, chunk.stop, ok, <<>>))
          /\ s3_dest' = IF ok THEN Stored(chunk) ELSE s3_dest
          /\ pc' = IF ok THEN "sftp_close" ELSE "sftp_except"
    /\ UNCHANGED <<locals, result, connVars, envVars>>

\* ftp_file.close(); return True     (both branches end this way)
upload_sftp_close ==
    /\ pc = "sftp_close"
    /\ \E ok \in BOOLEAN :
          /\ calls' = Append(calls, Simple("close", ok))
          /\ IF ok THEN Return("True")
             ELSE result' = result /\ pc' = "sftp_except"
    /\ UNCHANGED <<locals, s3_dest, connVars, envVars>>

\* multipart_upload = create_multipart_upload(...); parts = []; for i in range(chunk_count)
upload_sftp_create ==
    /\ pc = "sftp_create"
    /\ \E ok \in BOOLEAN :
          /\ calls' = Append(calls, Simple("create_multipart_upload", ok))
          /\ IF ok THEN /\ multipart_upload' = run
                        /\ parts' = <<>> /\ i' = 0
                        /\ pc' = IF 0 < chunk_count THEN "sftp_read_chunk"
                                 ELSE "sftp_complete"
             ELSE UNCHANGED <<multipart_upload, parts, i>> /\ pc' = "sftp_except"
    /\ UNCHANGED <<ftp_file_size, optimal_chunk_size, file_pos, chunk>>
    /\ UNCHANGED <<result, s3_dest, connVars, envVars>>

\* The bytes ftp_file.read(size) returns: the next `size` bytes, fewer at the end.
sftp_read_range(pos, size) ==
    [first |-> pos, stop |-> WMin(WAdd(pos, size), ftp_file_size)]

\* chunk = ftp_file.read(int(chunk_size))
upload_sftp_read_chunk ==
    /\ pc = "sftp_read_chunk"
    /\ \E ok \in BOOLEAN :
          LET got == sftp_read_range(file_pos, optimal_chunk_size)
          IN  /\ calls' = Append(calls, Call("read", 0, got.first, got.stop, ok, <<>>))
              /\ IF ok THEN /\ chunk' = got /\ file_pos' = got.stop
                            /\ pc' = "sftp_upload_part"
                 ELSE UNCHANGED <<chunk, file_pos>> /\ pc' = "sftp_except"
    /\ UNCHANGED <<ftp_file_size, optimal_chunk_size, multipart_upload, parts, i>>
    /\ UNCHANGED <<result, s3_dest, connVars, envVars>>

\* part = upload_part(PartNumber=i + 1, Body=chunk); parts.append({"PartNumber": i + 1});
\* then the next iteration, or the end of the loop
upload_sftp_upload_part ==
    /\ pc = "sftp_upload_part"
    /\ \E ok \in BOOLEAN :
          /\ calls' = Append(calls,
                 Call("upload_part", i + 1, chunk.first, chunk.stop, ok, <<>>))
          /\ IF ok THEN /\ parts' = Append(parts, i + 1)
                        /\ i' = i + 1
                        /\ pc' = IF i + 1 < chunk_count THEN "sftp_read_chunk"
                                 ELSE "sftp_complete"
             ELSE UNCHANGED <<parts, i>> /\ pc' = "sftp_except"
    /\ UNCHANGED <<ftp_file_size, optimal_chunk_size, multipart_upload, file_pos, chunk>>
    /\ UNCHANGED <<result, s3_dest, connVars, envVars>>

\* complete_multipart_upload(UploadId=..., MultipartUpload={"Parts": parts})
upload_sftp_complete ==
    /\ pc = "sftp_complete"
    /\ \E ok \in BOOLEAN :
          /\ calls' = Append(calls,
                 Call("complete_multipart_upload", 0, None, None, ok, parts))
          /\ s3_dest' = IF ok THEN Assembled(parts) ELSE s3_dest
          /\ pc' = IF ok THEN "sftp_close" ELSE "sftp_except"
    /\ UNCHANGED <<locals, result, connVars, envVars>>

-----------------------------------------------------------------------------
(* S3FTPTransfer._upload_ftp_to_s3                                          *)

\* except Exception: `if multipart_upload:` abort (a failing abort is logged);
\* return False
upload_ftp_except ==
    /\ pc = "ftp_except"
    /\ IF multipart_upload # 0
       THEN \E ok \in BOOLEAN :
               calls' = Append(calls, Simple("abort_multipart_upload", ok))
       ELSE calls' = calls
    /\ Return("False")
    /\ UNCHANGED <<locals, s3_dest, connVars, envVars>>

\* A branch that sends a file of exactly one chunk through a multipart session.
upload_ftp_branch_Strict ==
    /\ pc = "ftp_branch"
    /\ multipart_upload' = 0
    /\ pc' = IF WLt(ftp_file_size, optimal_chunk_size) THEN "ftp_retr" ELSE "ftp_create"
    /\ UNCHANGED <<ftp_file_size, optimal_chunk_size, parts, i, file_pos, chunk>>
    /\ UNCHANGED <<result, calls, s3_dest, connVars, envVars>>

\* multipart_upload = None; `if ftp_file_size <= chunk_size`
upload_ftp_branch ==
    /\ pc = "ftp_branch"
    /\ multipart_upload' = 0
    /\ pc' = IF WLe(ftp_file_size, optimal_chunk_size) THEN "ftp_retr" ELSE "ftp_create"
    /\ UNCHANGED <<ftp_file_size, optimal_chunk_size, parts, i, file_pos, chunk>>
    /\ UNCHANGED <<result, calls, s3_dest, connVars, envVars>>

\* What retrbinary('RETR path', buffer.write, rest=rest) leaves in the buffer:
\* the file from byte `rest` to its end (blocksize only sets the callback size).
ftp_retr_range(rest) == [first |-> rest, stop |-> ftp_file_size]

\* A chunk read that keeps the whole buffer retrbinary filled.
buffer_read_All(buffer, size) == buffer

\* file_data_buffer.seek(0); file_data_buffer.read(size): the first `size` bytes
buffer_read(buffer, size) ==
    [first |-> buffer.first, stop |-> WMin(WAdd(buffer.first, size), buffer.stop)]

\* retrbinary(f'RETR {ftp_path}', file_data_buffer.write); file_data_buffer.seek(0)
upload_ftp_retr ==
    /\ pc = "ftp_retr"
    /\ \E ok \in BOOLEAN :
          LET got == ftp_retr_range(Wide(0))
          IN  /\ calls' = Append(calls,
                     Call("retrbinary", 0, got.first, got.stop, ok, <<>>))
              /\ chunk' = IF ok THEN got ELSE chunk
              /\ pc' = IF ok THEN "ftp_put" ELSE "ftp_except"
    /\ UNCHANGED <<ftp_file_size, optimal_chunk_size, multipart_upload, parts, i, file_pos>>
    /\ UNCHANGED <<result, s3_dest, connVars, envVars>>

\* self.s3_client.upload_fileobj(file_data_buffer, s3_bucket, s3_key); return True
upload_ftp_put ==
    /\ pc = "ftp_put"
    /\ \E ok \in BOOLEAN :
          /\ calls' = Append(calls,
                 Call("upload_fileobj", 0, chunk.first, chunk.stop, ok, <<>>))
          /\ s3_dest' = IF ok THEN Stored(chunk) ELSE s3_dest
          /\ IF ok THEN Return("True")
             ELSE result' = result /\ pc' = "ftp_except"
    /\ UNCHANGED <<locals, connVars, envVars>>

\* multipart_upload = create_multipart_upload(...); parts = []; for i in range(chunk_count)
upload_ftp_create ==
    /\ pc = "ftp_create"
    /\ \E ok \in BOOLEAN :
          /\ calls' = Append(calls, Simple("create_multipart_upload", ok))
          /\ IF ok THEN /\ multipart_upload' = run
                        /\ parts' = <<>> /\ i' = 0
                        /\ pc' = IF 0 < chunk_count THEN "ftp_retr_chunk"
                                 ELSE "ftp_complete"
             ELSE UNCHANGED <<multipart_upload, parts, i>> /\ pc' = "ftp_except"
    /\ UNCHANGED <<ftp_file_size, optimal_chunk_size, file_pos, chunk>>
    /\ UNCHANGED <<result, s3_dest, connVars, envVars>>

\* retrbinary(..., blocksize=chunk_size, rest=i * chunk_size) (an error is re-raised);
\* file_data_buffer.seek(0); chunk = file_data_buffer.read(chunk_size)
upload_ftp_retr_chunk ==
    /\ pc = "ftp_retr_chunk"
    /\ \E ok \in BOOLEAN :
          LET buffer == ftp_retr_range(WMul(optimal_chunk_size, i))
          IN  /\ calls' = Append(calls,
                     Call("retrbinary", 0, buffer.first, buffer.stop, ok, <<>>))
              /\ chunk' = IF ok THEN buffer_read(buffer, optimal_chunk_size) ELSE chunk
              /\ pc' = IF ok THEN "ftp_upload_part" ELSE "ftp_except"
    /\ UNCHANGED <<ftp_file_size, optimal_chunk_size, multipart_upload, parts, i, file_pos>>
    /\ UNCHANGED <<result, s3_dest, connVars, envVars>>

\* A part loop that goes on to the next chunk when a part upload fails.
upload_ftp_upload_part_Continue ==
    /\ pc = "ftp_upload_part"
    /\ \E ok \in BOOLEAN :
          /\ calls' = Append(calls,
                 Call("upload_part", i + 1, chunk.first, chunk.stop, ok, <<>>))
          /\ parts' = IF ok THEN Append(parts, i + 1) ELSE parts
          /\ i' = i + 1
          /\ pc' = IF i + 1 < chunk_count THEN "ftp_retr_chunk" ELSE "ftp_complete"
    /\ UNCHANGED <<ftp_file_size, optimal_chunk_size, multipart_upload, file_pos, chunk>>
    /\ UNCHANGED <<result, s3_dest, connVars, envVars>>

\* part = upload_part(PartNumber=i + 1, Body=chunk); parts.append({"PartNumber": i + 1});
\* then the next iteration, or the end of the loop
upload_ftp_upload_part ==
    /\ pc = "ftp_upload_part"
    /\ \E ok \in BOOLEAN :
          /\ calls' = Append(calls,
                 Call("upload_part", i + 1, chunk.first, chunk.stop, ok, <<>>))
          /\ IF ok THEN /\ parts' = Append(parts, i + 1)
                        /\ i' = i + 1
                        /\ pc' = IF i + 1 < chunk_count THEN "ftp_retr_chunk"
                                 ELSE "ftp_complete"
             ELSE UNCHANGED <<parts, i>> /\ pc' = "ftp_except"
    /\ UNCHANGED <<ftp_file_size, optimal_chunk_size, multipart_upload, file_pos, chunk>>
    /\ UNCHANGED <<result, s3_dest, connVars, envVars>>

\* complete_multipart_upload(UploadId=..., MultipartUpload={"Parts": parts}); return True
upload_ftp_complete ==
    /\ pc = "ftp_complete"
    /\ \E ok \in BOOLEAN :
          /\ calls' = Append(calls,
                 Call("complete_multipart_upload", 0, None, None, ok, parts))
          /\ s3_dest' = IF ok THEN Assembled(parts) ELSE s3_dest
          /\ IF ok THEN Return("True")
             ELSE result' = result /\ pc' = "ftp_except"
    /\ UNCHANGED <<locals, connVars, envVars>>

-----------------------------------------------------------------------------
(* S3FTPTransfer.download_from_s3, _download_s3_to_sftp and                 *)
(* _download_s3_to_ftp.  Here ftp_file_size is the local `s3_file_size`.    *)
(* Bytes are named by where they come from: a piece [origin, first, stop)   *)
(* is the bytes first..stop-1 of the source file the upload read            *)
(* ("source"), or of an object that was at the key before ("old").          *)

Piece(origin, first, stop) == [origin |-> origin, first |-> first, stop |-> stop]

\* The bytes of an object: the bodies of its parts in part order, or the one
\* body that was put; an object this model did not store has bytes of its own.
Body(object) ==
    IF ~object.exists THEN <<>>
    ELSE IF object.by = 0 THEN <<Piece("old", Wide(0), object.size)>>
    ELSE [k \in 1..Len(object.ranges) |->
             Piece("source", object.ranges[k].first, object.ranges[k].stop)]

\* The bytes start..stop-1 of the byte string `body`.
RECURSIVE Slice(_, _, _)
Slice(body, start, stop) ==
    IF body = <<>> \/ ~WLt(start, stop) THEN <<>>
    ELSE LET p == Head(body)
             len == WSub(p.stop, p.first)
         IN  IF WLe(len, start)
             THEN Slice(Tail(body), WSub(start, len), WSub(stop, len))
             ELSE LET take == WMin(len, stop)
                  IN  <<Piece(p.origin, WAdd(p.first, start), WAdd(p.first, take))>>
                          \o Slice(Tail(body), Wide(0), WSub(stop, take))

\* `return value` from the download functions
Downloaded(value) == result' = value /\ pc' = "downloaded"

\* A download that prepares the remote directory before it looks for the key.
download_from_s3_DirectoryFirst ==
    /\ mode = "upload" /\ pc = "done"
    /\ mode' = "download" /\ prev_result' = result
    /\ \E ok, made \in BOOLEAN :
          LET s3_file_size == IF ok /\ s3_dest.exists THEN s3_dest.size ELSE None
              planned == _calculate_optimal_chunk_size(s3_file_size, chunk_size)
              single == WLe(s3_file_size, planned)
          IN  /\ ftp_file_size' = s3_file_size
              /\ IF s3_file_size = None
                 THEN /\ calls' = calls \o <<Simple("_ensure_ftp_directory", made),
                                             Simple("get_file_size_s3", FALSE)>>
                      /\ optimal_chunk_size' = optimal_chunk_size
                      /\ Downloaded("False")
                 ELSE /\ calls' = calls \o <<Simple("_ensure_ftp_directory", made),
                                             Simple("get_file_size_s3", TRUE)>>
                      /\ optimal_chunk_size' = planned
                      /\ result' = "none"
                      /\ pc' = IF protocol = "sftp"
                               THEN (IF single THEN "download_sftp_get"
                                     ELSE "download_sftp_open")
                               ELSE (IF single THEN "download_ftp_fileobj"
                                     ELSE "download_ftp_get_chunk")
    /\ i' = 0 /\ temp_file' = <<>>
    /\ UNCHANGED <<multipart_upload, parts, file_pos, chunk, s3_dest, connVars,
                   src_size, chunk_size, run, s3_before, remote_file, versions,
                   batchVars>>

\* download_from_s3, called once the upload has returned: s3_file_size =
\* get_file_size_s3(...) (None when head_object raises or the key is absent:
\* return False); the chunk size; _ensure_ftp_directory, which swallows its
\* exceptions; then the function of the protocol and its `if s3_file_size <=
\* chunk_size`.
download_from_s3 ==
    /\ mode = "upload" /\ pc = "done"
    /\ mode' = "download" /\ prev_result' = result
    /\ \E ok, made \in BOOLEAN :
          LET s3_file_size == IF ok /\ s3_dest.exists THEN s3_dest.size ELSE None
              planned == _calculate_optimal_chunk_size(s3_file_size, chunk_size)
              single == WLe(s3_file_size, planned)
          IN  /\ ftp_file_size' = s3_file_size
              /\ IF s3_file_size = None
                 THEN /\ calls' = Append(calls, Simple("get_file_size_s3", FALSE))
                      /\ optimal_chunk_size' = optimal_chunk_size
                      /\ Downloaded("False")
                 ELSE /\ calls' = calls \o <<Simple("get_file_size_s3", TRUE),
                                             Simple("_ensure_ftp_directory", made)>>
                      /\ optimal_chunk_size' = planned
                      /\ result' = "none"
                      /\ pc' = IF protocol = "sftp"
                               THEN (IF single THEN "download_sftp_get"
                                     ELSE "download_sftp_open")
                               ELSE (IF single THEN "download_ftp_fileobj"
                                     ELSE "download_ftp_get_chunk")
    /\ i' = 0 /\ temp_file' = <<>>
    /\ UNCHANGED <<multipart_upload, parts, file_pos, chunk, s3_dest, connVars,
                   src_size, chunk_size, run, s3_before, remote_file, versions,
                   batchVars>>

downloadVars == <<ftp_file_size, optimal_chunk_size, multipart_upload, parts,
                  file_pos, chunk, s3_dest, connVars, src_size, chunk_size, mode,
                  run, prev_result, s3_before, versions, batchVars>>

\* A range request that asks for one byte more than the chunk.
download_range_Inclusive(n) ==
    LET start_byte == WMul(optimal_chunk_size, n)
        end_byte == WMin(WAdd(start_byte, optimal_chunk_size), ftp_file_size)
    IN  [first |-> start_byte, stop |-> WMin(WAdd(end_byte, Wide(1)), ftp_file_size)]

\* start_byte = i * chunk_size; end_byte = min(start_byte + chunk_size - 1,
\* s3_file_size - 1); Range = bytes=start_byte-end_byte, i.e. the bytes
\* start_byte..end_byte of the object
download_range(n) ==
    LET start_byte == WMul(optimal_chunk_size, n)
        end_byte == WMin(WSub(WAdd(start_byte, optimal_chunk_size), Wide(1)),
                         WSub(ftp_file_size, Wide(1)))
    IN  [first |-> start_byte, stop |-> WAdd(end_byte, Wide(1))]

\* What get_object(Range = ...)['Body'].read() returns for chunk n.
get_object_range(n) ==
    Slice(Body(s3_dest), download_range(n).first, download_range(n).stop)

\* _download_s3_to_sftp, one chunk: s3_obj = get_object(...);
\* file_data = s3_obj['Body'].read()
download_sftp_get ==
    /\ pc = "download_sftp_get"
    /\ \E ok \in BOOLEAN :
          /\ calls' = Append(calls, Call("get_object", 0, Wide(0), ftp_file_size,
                                         ok, <<>>))
          /\ temp_file' = IF ok THEN Body(s3_dest) ELSE temp_file
          /\ IF ok THEN result' = result /\ pc' = "download_sftp_write"
             ELSE Downloaded("False")
    /\ UNCHANGED <<i, remote_file, downloadVars>>

\* with self.ftp_connection.file(ftp_path, 'w') as ftp_file:
\*     ftp_file.write(file_data); return True.  Opening the file empties it.
download_sftp_write ==
    /\ pc = "download_sftp_write"
    /\ \E opened, ok \in BOOLEAN :
          /\ calls' = Append(calls, Simple("write", opened /\ ok))
          /\ remote_file' = IF ~opened THEN remote_file
                            ELSE IF ok THEN temp_file ELSE <<>>
          /\ Downloaded(IF opened /\ ok THEN "True" ELSE "False")
    /\ UNCHANGED <<i, temp_file, downloadVars>>

\* chunk_count = ...; with self.ftp_connection.file(ftp_path, 'w') as ftp_file:
\*     for i in range(chunk_count):
download_sftp_open ==
    /\ pc = "download_sftp_open"
    /\ \E ok \in BOOLEAN :
          /\ calls' = Append(calls, Simple("open", ok))
          /\ remote_file' = IF ok THEN <<>> ELSE remote_file
          /\ IF ok THEN result' = result /\ pc' = "download_sftp_get_chunk"
             ELSE Downloaded("False")
    /\ i' = 0
    /\ UNCHANGED <<temp_file, downloadVars>>

\* s3_obj = get_object(..., Range = f'bytes={start_byte}-{end_byte}');
\* chunk = s3_obj['Body'].read()
download_sftp_get_chunk ==
    /\ pc = "download_sftp_get_chunk"
    /\ \E ok \in BOOLEAN :
          /\ calls' = Append(calls, Call("get_object", i + 1, download_range(i).first,
                                         download_range(i).stop, ok, <<>>))
          /\ temp_file' = IF ok THEN get_object_range(i) ELSE temp_file
          /\ IF ok THEN result' = result /\ pc' = "download_sftp_write_chunk"
             ELSE Downloaded("False")
    /\ UNCHANGED <<i, remote_file, downloadVars>>

\* ftp_file.write(chunk); after the last chunk the file is closed: return True
download_sftp_write_chunk ==
    /\ pc = "download_sftp_write_chunk"
    /\ \E ok, closed \in BOOLEAN :
          LET last == i + 1 = chunk_count
          IN  /\ calls' = Append(calls, Simple("write", ok /\ (last => closed)))
              /\ remote_file' = IF ok THEN remote_file \o temp_file ELSE remote_file
              /\ IF ~ok \/ (last /\ ~closed) THEN Downloaded("False")
                 ELSE IF last THEN Downloaded("True")
                 ELSE result' = result /\ pc' = "download_sftp_get_chunk"
    /\ i' = i + 1
    /\ UNCHANGED <<temp_file, downloadVars>>

\* _download_s3_to_ftp, one chunk: temp_file = io.BytesIO();
\* download_fileobj(s3_bucket, s3_key, temp_file); temp_file.seek(0)
download_ftp_fileobj ==
    /\ pc = "download_ftp_fileobj"
    /\ \E ok \in BOOLEAN :
          /\ calls' = Append(calls, Call("download_fileobj", 0, Wide(0),
                                         ftp_file_size, ok, <<>>))
          /\ temp_file' = IF ok THEN Body(s3_dest) ELSE temp_file
          /\ IF ok THEN result' = result /\ pc' = "download_ftp_stor"
             ELSE Downloaded("False")
    /\ UNCHANGED <<i, remote_file, downloadVars>>

\* for i in range(chunk_count): s3_obj = get_object(..., Range = ...);
\* chunk = s3_obj['Body'].read(); temp_file.write(chunk); after the last chunk
\* temp_file.seek(0)
download_ftp_get_chunk ==
    /\ pc = "download_ftp_get_chunk"
    /\ \E ok \in BOOLEAN :
          /\ calls' = Append(calls, Call("get_object", i + 1, download_range(i).first,
                                         download_range(i).stop, ok, <<>>))
          /\ temp_file' = IF ok THEN temp_file \o get_object_range(i) ELSE temp_file
          /\ IF ~ok THEN Downloaded("False")
             ELSE result' = result
                  /\ pc' = IF i + 1 = chunk_count THEN "download_ftp_stor"
                           ELSE "download_ftp_get_chunk"
    /\ i' = i + 1
    /\ UNCHANGED <<remote_file, downloadVars>>

\* self.ftp_connection.storbinary(f'STOR {ftp_path}', temp_file); return True
\* (at the end of both branches)
download_ftp_stor ==
    /\ pc = "download_ftp_stor"
    /\ \E ok \in BOOLEAN :
          /\ calls' = Append(calls, Simple("storbinary", ok))
          /\ remote_file' = IF ok THEN temp_file ELSE remote_file
          /\ Downloaded(IF ok THEN "True" ELSE "False")
    /\ UNCHANGED <<i, temp_file, downloadVars>>

-----------------------------------------------------------------------------
(* version-aware-cleanup.py: copy_with_metadata_preservation and            *)
(* multipart_copy_with_metadata.  Here ftp_file_size is the local `size`,   *)
(* optimal_chunk_size the local `part_size`, file_pos the loop's `offset`   *)
(* and multipart_upload the local `upload_id`.                              *)

MAX_DIRECT_COPY_SIZE == WMul(WMul(WMul(Wide(4), 1024), 1024), 1024)

\* size = source_metadata.get('ContentLength', 0); `if size > MAX_DIRECT_COPY_SIZE`
copy_with_metadata_preservation ==
    /\ mode = "copy" /\ pc = "copy_with_metadata_preservation"
    /\ ftp_file_size' = src_size
    /\ pc' = IF WLt(MAX_DIRECT_COPY_SIZE, src_size) THEN "mpc_head" ELSE "copy_object"
    /\ UNCHANGED <<optimal_chunk_size, multipart_upload, parts, i, file_pos, chunk>>
    /\ UNCHANGED <<result, calls, s3_dest, connVars, envVars>>

\* s3.copy_object(**copy_args); apply_tags(...); success = True
\* / except ClientError: return False
copy_object ==
    /\ pc = "copy_object"
    /\ \E ok \in BOOLEAN :
          LET whole == [first |-> Wide(0), stop |-> ftp_file_size]
          IN  /\ calls' = Append(calls,
                     Call("copy_object", 0, whole.first, whole.stop, ok, <<>>))
              /\ s3_dest' = IF ok THEN Stored(whole) ELSE s3_dest
              /\ Return(IF ok THEN "True" ELSE "False")
    /\ UNCHANGED <<locals, connVars, envVars>>

\* response = get_object_metadata(...); `if not response: return False`;
\* size = response['ContentLength']
multipart_copy_head ==
    /\ pc = "mpc_head"
    /\ \E ok \in BOOLEAN :
          /\ calls' = Append(calls, Simple("head_object", ok))
          /\ ftp_file_size' = IF ok THEN src_size ELSE ftp_file_size
          /\ IF ok THEN result' = result /\ pc' = "mpc_create"
             ELSE Return("False")
    /\ UNCHANGED <<optimal_chunk_size, multipart_upload, parts, i, file_pos, chunk>>
    /\ UNCHANGED <<s3_dest, connVars, envVars>>

\* target_part_size = 500 * 1024 * 1024
target_part_size == WMul(WMul(Wide(500), 1024), 1024)

\* min_part_size = max(5 * 1024 * 1024, size // 10000)
\* part_size = min(max(target_part_size, min_part_size), MAX_DIRECT_COPY_SIZE - 1)
part_size_for(size) ==
    LET min_part_size == WMax(WMul(WMul(Wide(5), 1024), 1024), WDiv(size, 10000))
        part_size_1 == WMax(target_part_size, min_part_size)
    IN  WMin(part_size_1, WSub(MAX_DIRECT_COPY_SIZE, Wide(1)))

\* mpu = s3.create_multipart_upload(**mpu_args); upload_id = mpu['UploadId'];
\* part_size = ...; parts = []; for i, offset in enumerate(range(0, size, part_size), 1)
multipart_copy_create ==
    /\ pc = "mpc_create"
    /\ \E ok \in BOOLEAN :
          /\ calls' = Append(calls, Simple("create_multipart_upload", ok))
          /\ IF ok THEN /\ multipart_upload' = run
                        /\ optimal_chunk_size' = part_size_for(ftp_file_size)
                        /\ parts' = <<>> /\ i' = 1 /\ file_pos' = Wide(0)
                        /\ result' = result
                        /\ pc' = IF WLt(Wide(0), ftp_file_size) THEN "mpc_part"
                                 ELSE "mpc_complete"
             ELSE /\ UNCHANGED <<multipart_upload, optimal_chunk_size, parts, i, file_pos>>
                  /\ Return("False")
    /\ UNCHANGED <<ftp_file_size, chunk, s3_dest, connVars, envVars>>

\* last_byte = min(offset + part_size - 1, size - 1)
last_byte(offset, part_size, size) ==
    WMin(WSub(WAdd(offset, part_size), Wide(1)), WSub(size, Wide(1)))

\* part = s3.upload_part_copy(CopySourceRange="bytes=offset-last_byte", PartNumber=i);
\* parts.append({'PartNumber': i}); then the next offset of range(0, size, part_size)
multipart_copy_part ==
    /\ pc = "mpc_part"
    /\ \E ok \in BOOLEAN :
          LET last == last_byte(file_pos, optimal_chunk_size, ftp_file_size)
              next_offset == WAdd(file_pos, optimal_chunk_size)
          IN  /\ calls' = Append(calls,
                     Call("upload_part_copy", i, file_pos, WAdd(last, Wide(1)), ok, <<>>))
              /\ IF ok THEN /\ parts' = Append(parts, i)
                            /\ i' = i + 1
                            /\ file_pos' = next_offset
                            /\ pc' = IF WLt(next_offset, ftp_file_size) THEN "mpc_part"
                                     ELSE "mpc_complete"
                 ELSE UNCHANGED <<parts, i, file_pos>> /\ pc' = "mpc_except"
    /\ UNCHANGED <<ftp_file_size, optimal_chunk_size, multipart_upload, chunk>>
    /\ UNCHANGED <<result, s3_dest, connVars, envVars>>

\* s3.complete_multipart_upload(..., MultipartUpload={'Parts': parts});
\* apply_tags(...) (which never raises); return True
multipart_copy_complete ==
    /\ pc = "mpc_complete"
    /\ \E ok \in BOOLEAN :
          /\ calls' = Append(calls,
                 Call("complete_multipart_upload", 0, None, None, ok, parts))
          /\ s3_dest' = IF ok THEN Assembled(parts) ELSE s3_dest
          /\ IF ok THEN Return("True")
             ELSE result' = result /\ pc' = "mpc_except"
    /\ UNCHANGED <<locals, connVars, envVars>>

\* A handler that lets the exception of a failing abort leave the function.
multipart_copy_except_AbortEscapes ==
    /\ pc = "mpc_except"
    /\ \E ok \in BOOLEAN :
          /\ calls' = Append(calls, Simple("abort_multipart_upload", ok))
          /\ Return(IF ok THEN "False" ELSE "raised")
    /\ UNCHANGED <<locals, s3_dest, connVars, envVars>>

\* except Exception: s3.abort_multipart_upload(...); return False
\* (an abort that raises reaches the outer handler, which returns False too)
multipart_copy_except ==
    /\ pc = "mpc_except"
    /\ \E ok \in BOOLEAN :
          calls' = Append(calls, Simple("abort_multipart_upload", ok))
    /\ Return("False")
    /\ UNCHANGED <<locals, s3_dest, connVars, envVars>>

-----------------------------------------------------------------------------
(* version-aware-cleanup.py: copy_file.  `versions` is what                 *)
(* list_object_versions returns for the source key, newest first: the size  *)
(* of each version; the first one is the current version, of size src_size. *)

\* source_metadata = get_object_metadata(...) (`if not source_metadata: return
\* False`); with current_version_only the current version is copied; otherwise
\* versions = get_all_versions(...) ([] when the listing raises; `if not
\* versions: return False`), the metadata of the current version is looked up
\* (source_metadata is used when that fails) and the current version is copied.
copy_file_start ==
    /\ mode = "copy" /\ pc = "copy_file"
    /\ \E head, listed, version_head \in BOOLEAN :
          LET found == IF listed THEN versions ELSE <<>>
          IN  IF ~head
              THEN /\ calls' = Append(calls, Simple("head_object", FALSE))
                   /\ Return("False")
              ELSE IF args.current_version_only
              THEN /\ calls' = Append(calls, Simple("head_object", TRUE))
                   /\ result' = result /\ pc' = "copy_with_metadata_preservation"
              ELSE IF found = <<>>
              THEN /\ calls' = calls \o <<Simple("head_object", TRUE),
                                          Simple("list_object_versions", listed)>>
                   /\ Return("False")
              ELSE /\ calls' = calls \o <<Simple("head_object", TRUE),
                                          Simple("list_object_versions", TRUE),
                                          Simple("head_object", version_head)>>
                   /\ result' = result /\ pc' = "copy_with_metadata_preservation"
    /\ UNCHANGED <<locals, s3_dest, connVars, envVars>>

\* copy_with_metadata_preservation has returned to copy_file: `if not success:
\* return False`; `for version in versions:` (the current version is skipped)
copy_file_versions ==
    /\ mode = "copy" /\ pc = "done"
    /\ ~args.current_version_only /\ result = "True"
    /\ i' = 2
    /\ pc' = IF Len(versions) >= 2 THEN "copy_version" ELSE "copied"
    /\ UNCHANGED <<ftp_file_size, optimal_chunk_size, multipart_upload, parts,
                   file_pos, chunk>>
    /\ UNCHANGED <<result, calls, s3_dest, connVars, envVars>>

\* s3.copy_object(Bucket=dest_bucket, Key=dest_key, CopySource={..., 'VersionId':
\* version_id}) for one version that is not the current one; after the last,
\* return True; except ClientError: return False
copy_file_version ==
    /\ pc = "copy_version"
    /\ \E ok \in BOOLEAN :
          LET whole == [first |-> Wide(0), stop |-> versions[i]]
          IN  /\ calls' = Append(calls,
                     Call("copy_object", i, whole.first, whole.stop, ok, <<>>))
              /\ s3_dest' = IF ok THEN Stored(whole) ELSE s3_dest
              /\ result' = IF ok THEN "True" ELSE "False"
              /\ pc' = IF ok /\ i < Len(versions) THEN "copy_version" ELSE "copied"
    /\ i' = i + 1
    /\ UNCHANGED <<ftp_file_size, optimal_chunk_size, multipart_upload, parts,
                   file_pos, chunk>>
    /\ UNCHANGED <<connVars, envVars>>

\* process_copy_or_move after copy_file: `if is_move and success and not
\* dryrun: success = delete_file(source_bucket, source_key, current_version_only)`.
\* delete_file puts a delete marker on the key (current_version_only; the
\* marker is the version None) or deletes the versions get_all_versions
\* returns, newest first, until a call raises ClientError; the record holds the
\* number of versions it has removed from sight.
delete_file_versions ==
    /\ mode = "copy" /\ args.operation = "move" /\ result = "True"
    /\ (args.current_version_only /\ pc = "done") \/ pc = "copied"
    /\ \E listed \in BOOLEAN, d \in 0..Len(versions) :
          /\ ~listed => d = 0
          /\ args.current_version_only => d \in {0, 1}
          /\ LET whole == IF args.current_version_only THEN 1 ELSE Len(versions)
                 ok == listed /\ d = whole
             IN  /\ calls' = Append(calls, Call("delete_file", d, None, None, ok, <<>>))
                 /\ result' = IF ok THEN "True" ELSE "False"
          /\ versions' = IF args.current_version_only
                         THEN (IF d = 1 THEN <<None>> \o versions ELSE versions)
                         ELSE SubSeq(versions, d + 1, Len(versions))
    /\ prev_result' = result /\ pc' = "moved"
    /\ UNCHANGED <<locals, s3_dest, connVars, batchVars>>
    /\ UNCHANGED <<src_size, chunk_size, mode, run, s3_before, temp_file, remote_file>>

-----------------------------------------------------------------------------
(* version-aware-cleanup.py: prefixes and keys.  A string is the sequence of *)
(* its characters.                                                          *)

\* str.startswith
startswith(s, p) == Len(p) <= Len(s) /\ SubSeq(s, 1, Len(p)) = p

\* str.endswith
endswith(s, p) == Len(p) <= Len(s) /\ SubSeq(s, Len(s) - Len(p) + 1, Len(s)) = p

\* s.lstrip('/') and s.rstrip('/')
RECURSIVE lstrip(_)
lstrip(s) == IF s # <<>> /\ Head(s) = "/" THEN lstrip(Tail(s)) ELSE s

RECURSIVE rstrip(_)
rstrip(s) ==
    IF s # <<>> /\ s[Len(s)] = "/" THEN rstrip(SubSeq(s, 1, Len(s) - 1)) ELSE s

\* s.strip('/')
strip(s) == rstrip(lstrip(s))

\* re.sub(r'/+', '/', s): every run of slashes becomes one slash
RECURSIVE sub_slashes(_)
sub_slashes(s) ==
    IF s = <<>> THEN <<>>
    ELSE IF Head(s) = "/" THEN <<"/">> \o sub_slashes(lstrip(s))
    ELSE <<Head(s)>> \o sub_slashes(Tail(s))

\* s.replace('//', '/'): the non-overlapping pairs, from the left, one pass
RECURSIVE replace_double(_)
replace_double(s) ==
    IF Len(s) < 2 THEN s
    ELSE IF s[1] = "/" /\ s[2] = "/" THEN <<"/">> \o replace_double(SubSeq(s, 3, Len(s)))
    ELSE <<s[1]>> \o replace_double(Tail(s))

\* The position of the last "/" of s, 0 when it has none (str.rfind + 1).
RECURSIVE rfind_slash(_)
rfind_slash(s) ==
    IF s = <<>> THEN 0
    ELSE IF s[Len(s)] = "/" THEN Len(s)
    ELSE rfind_slash(SubSeq(s, 1, Len(s) - 1))

\* os.path.basename(p): what follows the last slash
basename(p) == SubSeq(p, rfind_slash(p) + 1, Len(p))

\* os.path.dirname(p): what precedes the last slash, without its trailing
\* slashes unless it consists of slashes only
dirname(p) ==
    LET head == SubSeq(p, 1, rfind_slash(p))
    IN  IF head # <<>> /\ rstrip(head) # <<>> THEN rstrip(head) ELSE head

\* normalized = re.sub(r'/+', '/', prefix.strip('/')) + '/'
normalize_prefix(prefix) == sub_slashes(strip(prefix)) \o <<"/">>

\* os.path.basename(path.rstrip('/').replace('//', '/'))
get_basename(path) == basename(replace_double(rstrip(path)))

\* A placement that never makes the sub-folder named after the source.
calculate_destination_key_AlwaysMerge(source_key, src_prefix, dest_prefix, merge) ==
    LET norm_source_prefix == normalize_prefix(src_prefix)
        norm_dest_prefix == normalize_prefix(dest_prefix)
    IN  IF startswith(source_key, norm_source_prefix)
        THEN norm_dest_prefix
                 \o SubSeq(source_key, Len(norm_source_prefix) + 1, Len(source_key))
        ELSE norm_dest_prefix \o basename(source_key)

\* A placement without the same-name rule.
calculate_destination_key_NoSameName(source_key, src_prefix, dest_prefix, merge) ==
    LET norm_source_prefix == normalize_prefix(src_prefix)
        norm_dest_prefix == normalize_prefix(dest_prefix)
        source_basename == get_basename(src_prefix)
    IN  IF startswith(source_key, norm_source_prefix)
        THEN LET relative_path ==
                     SubSeq(source_key, Len(norm_source_prefix) + 1, Len(source_key))
             IN  IF merge THEN norm_dest_prefix \o relative_path
                 ELSE ((norm_dest_prefix \o source_basename) \o <<"/">>) \o relative_path
        ELSE norm_dest_prefix \o basename(source_key)

\* calculate_destination_key.  `a == b and a and b` is truthy iff the two names
\* are equal and not empty.
\* A placement that keeps the whole path of a key that is not under the prefix.
calculate_destination_key_KeepsPath(source_key, src_prefix, dest_prefix, merge) ==
    LET norm_source_prefix == normalize_prefix(src_prefix)
        norm_dest_prefix == normalize_prefix(dest_prefix)
        source_basename == get_basename(src_prefix)
        dest_basename == get_basename(dest_prefix)
        folders_have_same_name ==
            source_basename = dest_basename /\ source_basename # <<>>
    IN  IF startswith(source_key, norm_source_prefix)
        THEN LET relative_path ==
                     SubSeq(source_key, Len(norm_source_prefix) + 1, Len(source_key))
             IN  IF merge \/ folders_have_same_name
                 THEN norm_dest_prefix \o relative_path
                 ELSE ((norm_dest_prefix \o source_basename) \o <<"/">>) \o relative_path
        ELSE norm_dest_prefix \o source_key

calculate_destination_key(source_key, src_prefix, dest_prefix, merge) ==
    LET norm_source_prefix == normalize_prefix(src_prefix)
        norm_dest_prefix == normalize_prefix(dest_prefix)
        source_basename == get_basename(src_prefix)
        dest_basename == get_basename(dest_prefix)
        folders_have_same_name ==
            source_basename = dest_basename /\ source_basename # <<>>
    IN  IF startswith(source_key, norm_source_prefix)
        THEN LET relative_path ==
                     SubSeq(source_key, Len(norm_source_prefix) + 1, Len(source_key))
             IN  IF merge \/ folders_have_same_name
                 THEN norm_dest_prefix \o relative_path
                 ELSE ((norm_dest_prefix \o source_basename) \o <<"/">>) \o relative_path
        ELSE norm_dest_prefix \o basename(source_key)

\* One "source -> destination" pair, as logged or as copied.
Placed(key, dest, prefix) == [key |-> key, dest |-> dest, prefix |-> prefix]

\* dest_key = calculate_destination_key(source_key, source_prefix, dest_prefix, merge)
\* applied to one key.
place ==
    /\ mode = "place" /\ pc = "calculate_destination_key"
    /\ LET source_key == matched_files[1].Key
       IN  reported' = <<Placed(source_key,
                                calculate_destination_key(source_key, source_prefix,
                                                          args.dest_prefix, args.merge),
                                source_prefix)>>
    /\ pc' = "done"
    /\ UNCHANGED <<locals, result, calls, s3_dest, connVars, runVars>>
    /\ UNCHANGED <<store, matched_files, success_count, failed_count, dest_exists,
                   stack, source_prefix>>

\* bulk_download_from_s3: the remote path of one key.  `if s3_prefix and
\* s3_key.startswith(s3_prefix):` relative_path = s3_key[len(s3_prefix):].lstrip('/');
\* otherwise os.path.basename(s3_key); under ftp_dir when there is one.
bulk_download_path(s3_key, s3_prefix, ftp_dir) ==
    LET name == IF s3_prefix # <<>> /\ startswith(s3_key, s3_prefix)
                THEN lstrip(SubSeq(s3_key, Len(s3_prefix) + 1, Len(s3_key)))
                ELSE basename(s3_key)
    IN  IF ftp_dir # <<>> THEN (ftp_dir \o <<"/">>) \o name ELSE name

\* ftp_path of bulk_download_from_s3 applied to one key, with s3_prefix the
\* source prefix and ftp_dir the destination prefix.
bulk_download_place ==
    /\ mode = "place" /\ pc = "calculate_destination_key"
    /\ LET s3_key == matched_files[1].Key
       IN  reported' = <<Placed(s3_key,
                                bulk_download_path(s3_key, source_prefix,
                                                   args.dest_prefix),
                                source_prefix)>>
    /\ pc' = "ftp_path"
    /\ UNCHANGED <<locals, result, calls, s3_dest, connVars, runVars>>
    /\ UNCHANGED <<store, matched_files, success_count, failed_count, dest_exists,
                   stack, source_prefix>>

-----------------------------------------------------------------------------
(* version-aware-cleanup.py: the bucket, its listings and the patterns.  The *)
(* bucket `store` is a set of objects [Key, Size], one per key; a folder     *)
(* marker is a zero-byte object whose key ends in "/".                      *)

Object(key, size) == [Key |-> key, Size |-> size]

Keys(objects) == {o.Key : o \in objects}

\* The characters of keys, in the order of their codes (object listings are
\* in the binary order of the keys).
KeyChars == <<"/", "a", "b", "c", "f", "g", "x">>

Code(c) == CHOOSE k \in 1..Len(KeyChars) : KeyChars[k] = c

RECURSIVE KeyLess(_, _)
KeyLess(a, b) ==
    IF b = <<>> THEN FALSE
    ELSE IF a = <<>> THEN TRUE
    ELSE IF Head(a) # Head(b) THEN Code(Head(a)) < Code(Head(b))
    ELSE KeyLess(Tail(a), Tail(b))

\* The objects of a listing response, in key order.
RECURSIVE Contents(_)
Contents(objects) ==
    IF objects = {} THEN <<>>
    ELSE LET first == CHOOSE o \in objects :
                          \A q \in objects \ {o} : KeyLess(o.Key, q.Key)
         IN  <<first>> \o Contents(objects \ {first})

\* `sub in s`
RECURSIVE contains(_, _)
contains(s, sub) ==
    IF startswith(s, sub) THEN TRUE
    ELSE IF s = <<>> THEN FALSE
    ELSE contains(Tail(s), sub)

\* The key `key` as list_objects_v2(Prefix = prefix, Delimiter = '/') groups
\* it: under 'Contents' when nothing but the prefix precedes its last part,
\* under the common prefix that ends at its first "/" after the prefix otherwise.
Rest(key, prefix) == SubSeq(key, Len(prefix) + 1, Len(key))

IsDirect(key, prefix) == startswith(key, prefix) /\ ~contains(Rest(key, prefix), <<"/">>)

CommonPrefix(key, prefix) ==
    LET rest == Rest(key, prefix)
        n == CHOOSE k \in 1..Len(rest) : rest[k] = "/" /\ \A j \in 1..(k - 1) : rest[j] # "/"
    IN  prefix \o SubSeq(rest, 1, n)

\* fnmatch.fnmatch(f, p) for patterns made of characters and of "*"
RECURSIVE fnmatch(_, _)
fnmatch(f, p) ==
    IF p = <<>> THEN f = <<>>
    ELSE IF Head(p) = "*"
         THEN fnmatch(f, Tail(p)) \/ (f # <<>> /\ fnmatch(Tail(f), p))
    ELSE f # <<>> /\ Head(f) = Head(p) /\ fnmatch(Tail(f), Tail(p))

\* is_recursive_pattern, for the pattern types glob and exact
is_recursive_pattern(pattern, pattern_type) ==
    IF pattern = <<>> THEN FALSE
    ELSE IF pattern_type = "glob"
         THEN contains(pattern, <<"*", "*">>) \/ contains(pattern, <<"/", "*", "/">>)
    ELSE FALSE

\* match_pattern, for the pattern types glob and exact
match_pattern(file_path, pattern, pattern_type, is_full_path) ==
    IF pattern = <<>> THEN TRUE
    ELSE LET f == IF is_full_path THEN file_path ELSE basename(file_path)
         IN  IF pattern_type = "exact" THEN f = pattern ELSE fnmatch(f, pattern)

\* One entry of matched_files.
MatchedFile(o) == [Key |-> o.Key, Size |-> o.Size, Name |-> basename(o.Key)]

\* list_direct_files, when the listing call succeeds
list_direct_files(prefix, pattern, pattern_type) ==
    LET norm_prefix == normalize_prefix(prefix)
        response == Contents({o \in store : IsDirect(o.Key, norm_prefix)})
    IN  SelectSeq([k \in 1..Len(response) |-> MatchedFile(response[k])],
                  LAMBDA f : /\ f.Key # norm_prefix
                             /\ match_pattern(f.Name, pattern, pattern_type, FALSE))

\* A recursive listing that keeps the markers of the folders below the prefix.
list_recursive_KeepsMarkers(prefix, pattern, pattern_type) ==
    LET norm_prefix == normalize_prefix(prefix)
        pages == Contents({o \in store : startswith(o.Key, norm_prefix)})
        is_recursive_pattern_flag == is_recursive_pattern(pattern, pattern_type)
    IN  SelectSeq([k \in 1..Len(pages) |-> MatchedFile(pages[k])],
                  LAMBDA f :
                      /\ f.Key # norm_prefix
                      /\ IF is_recursive_pattern_flag
                         THEN match_pattern(Rest(f.Key, norm_prefix), pattern,
                                            pattern_type, TRUE)
                         ELSE match_pattern(basename(f.Key), pattern, pattern_type, FALSE))

\* list_recursive, when the listing call succeeds
list_recursive(prefix, pattern, pattern_type) ==
    LET norm_prefix == normalize_prefix(prefix)
        pages == Contents({o \in store : startswith(o.Key, norm_prefix)})
        is_recursive_pattern_flag == is_recursive_pattern(pattern, pattern_type)
    IN  SelectSeq([k \in 1..Len(pages) |-> MatchedFile(pages[k])],
                  LAMBDA f :
                      /\ f.Key # norm_prefix
                      /\ ~(endswith(f.Key, <<"/">>) /\ f.Size = 0)
                      /\ IF is_recursive_pattern_flag
                         THEN match_pattern(Rest(f.Key, norm_prefix), pattern,
                                            pattern_type, TRUE)
                         ELSE match_pattern(basename(f.Key), pattern, pattern_type, FALSE))

\* list_folders, when the listing call succeeds: the common prefixes, in order
list_folders(prefix) ==
    LET norm_prefix == normalize_prefix(prefix)
        grouped == {o \in store : /\ startswith(o.Key, norm_prefix)
                                  /\ ~IsDirect(o.Key, norm_prefix)}
        prefixes == {Object(CommonPrefix(o.Key, norm_prefix), 0) : o \in grouped}
        response == Contents(prefixes)
    IN  SelectSeq([k \in 1..Len(response) |->
                      [Key |-> response[k].Key,
                       Name |-> basename(rstrip(response[k].Key))]],
                  LAMBDA f : f.Key # norm_prefix)

\* check_prefix_exists: list_objects_v2(Prefix = norm_prefix, MaxKeys = 1) has
\* 'Contents'; False when the call raises ClientError (listed = FALSE)
check_prefix_exists(prefix, listed) ==
    listed /\ \E o \in store : startswith(o.Key, normalize_prefix(prefix))

\* One call of the copy/move/delete tool: its name, the unit it belongs to
\* (0 outside the loop), the key it is about and whether it succeeded.
S3Call(op, n, key, ok) ==
    [op |-> op, n |-> n, first |-> None, stop |-> None, ok |-> ok, ps |-> <<>>,
     key |-> key]

\* The bucket after an object of that key and size was written.
WithObject(objects, key, size) ==
    {o \in objects : o.Key # key} \cup {Object(key, size)}

\* A folder creation that ignores the dry-run flag.
check_and_create_folder_IgnoresDryrun(prefix, dryrun, n, access, listed, put) ==
    LET norm_prefix == normalize_prefix(prefix)
        head == S3Call("head_bucket", n, <<>>, access)
        list == S3Call("list_objects_v2", n, norm_prefix, listed)
    IN  IF ~access THEN [calls |-> <<head>>, store |-> store, ret |-> FALSE]
        ELSE IF check_prefix_exists(norm_prefix, listed)
        THEN [calls |-> <<head, list>>, store |-> store, ret |-> TRUE]
        ELSE [calls |-> <<head, list, S3Call("put_object", n, norm_prefix, put)>>,
              store |-> IF put THEN WithObject(store, norm_prefix, 0) ELSE store,
              ret |-> put]

\* A folder creation that puts the marker at the prefix as it was given.
check_and_create_folder_Unnormalized(prefix, dryrun, n, access, listed, put) ==
    LET norm_prefix == normalize_prefix(prefix)
        head == S3Call("head_bucket", n, <<>>, access)
        list == S3Call("list_objects_v2", n, norm_prefix, listed)
    IN  IF ~access THEN [calls |-> <<head>>, store |-> store, ret |-> FALSE]
        ELSE IF check_prefix_exists(norm_prefix, listed) \/ dryrun
        THEN [calls |-> <<head, list>>, store |-> store, ret |-> TRUE]
        ELSE [calls |-> <<head, list, S3Call("put_object", n, prefix \o <<"/">>, put)>>,
              store |-> IF put THEN WithObject(store, prefix \o <<"/">>, 0) ELSE store,
              ret |-> put]

\* check_and_create_folder called for unit n (0: for the destination prefix):
\* the calls it makes, the bucket it leaves and what it returns, when
\* head_bucket, the listing and put_object succeed or raise ClientError.
check_and_create_folder(prefix, dryrun, n, access, listed, put) ==
    LET norm_prefix == normalize_prefix(prefix)
        head == S3Call("head_bucket", n, <<>>, access)
        list == S3Call("list_objects_v2", n, norm_prefix, listed)
    IN  IF ~access THEN [calls |-> <<head>>, store |-> store, ret |-> FALSE]
        ELSE IF check_prefix_exists(norm_prefix, listed) \/ dryrun
        THEN [calls |-> <<head, list>>, store |-> store, ret |-> TRUE]
        ELSE [calls |-> <<head, list, S3Call("put_object", n, norm_prefix, put)>>,
              store |-> IF put THEN WithObject(store, norm_prefix, 0) ELSE store,
              ret |-> put]

-----------------------------------------------------------------------------
(* version-aware-cleanup.py: process_files and main.  A call of the object   *)
(* store either succeeds or raises ClientError, which the tool turns into a  *)
(* failure; copy_file and delete_file catch nothing else, so any other       *)
(* exception raised while a unit is processed ("raised") reaches main().     *)

\* The state of the transfer tool, which this tool does not have.
otherVars == <<protocol, ftp_connection, attempts, ftp_file_size,
               optimal_chunk_size, multipart_upload, parts, file_pos, chunk,
               s3_dest, runVars>>

\* dryrun = args.dryrun is not None; dryrun_count = args.dryrun if dryrun else 100
\* (args.dryrun is <<>> for None and <<n>> for the count n).
Dryrun == args.dryrun # <<>>

dryrun_count == IF Dryrun THEN args.dryrun[1] ELSE 100

\* The calls of this run that failed (the user's answer is not a call).
Failed(cs) == {k \in 1..Len(cs) : ~cs[k].ok /\ cs[k].op # "input"}

\* A run of the copy/move/delete tool makes at most MaxFaults failing calls.
MaxFaults == 2

\* The depth of nested calls of process_files the interpreter allows
\* (sys.getrecursionlimit(), scaled down).
MaxDepth == 3

\* The run stays within the bound on failing calls.
WithinFaults == Cardinality(Failed(calls')) <= MaxFaults

\* `return value, ...` from process_files
ReturnFiles(value) == result' = value /\ pc' = "return" /\ exit_code' = exit_code

Goto(label) == result' = result /\ pc' = label /\ exit_code' = exit_code

\* An exception leaves process_files: main()'s `except Exception` is sys.exit(1).
Raise == result' = "raised" /\ pc' = "exited" /\ exit_code' = 1

IsCopyOrMove == args.operation \in {"copy", "move"}

\* if operation == 'list': matched_files = list_direct_files(...); return True, matched_files
process_files_list ==
    /\ mode = "files" /\ pc = "process_files" /\ args.operation = "list"
    /\ \E ok \in BOOLEAN :
          /\ calls' = Append(calls, S3Call("list_objects_v2", 0,
                                           normalize_prefix(source_prefix), ok))
          /\ matched_files' =
                 IF ok THEN list_direct_files(source_prefix, args.pattern, args.pattern_type)
                 ELSE <<>>
    /\ ReturnFiles("True")
    /\ UNCHANGED <<store, success_count, failed_count, dest_exists, reported, stack,
                   source_prefix, i, args, otherVars>>
    /\ WithinFaults

\* The validation of the destination parameters and the listing: direct files
\* for a pattern that is not recursive, the whole subtree otherwise; a listing
\* that raises ClientError yields [].
process_files_match ==
    /\ mode = "files" /\ pc = "process_files" /\ args.operation # "list"
    /\ IF IsCopyOrMove /\ args.dest_prefix = <<>>
       THEN /\ ReturnFiles("False")
            /\ UNCHANGED <<calls, matched_files>>
       ELSE \E ok \in BOOLEAN :
               LET is_recursive_pattern_flag ==
                       /\ args.pattern # <<>>
                       /\ is_recursive_pattern(args.pattern, args.pattern_type)
                   found ==
                       IF ~ok THEN <<>>
                       ELSE IF args.pattern # <<>> /\ ~is_recursive_pattern_flag
                       THEN list_direct_files(source_prefix, args.pattern, args.pattern_type)
                       ELSE list_recursive(source_prefix, args.pattern, args.pattern_type)
               IN  /\ calls' = Append(calls, S3Call("list_objects_v2", 0,
                                                    normalize_prefix(source_prefix), ok))
                   /\ matched_files' = found
                   /\ Goto(IF found = <<>> THEN "no_files"
                           ELSE IF Dryrun THEN "dryrun" ELSE "confirm")
    /\ UNCHANGED <<store, success_count, failed_count, dest_exists, reported, stack,
                   source_prefix, i, args, otherVars>>
    /\ WithinFaults

\* A pattern that matches nothing taken for an empty success.
process_files_no_files_EmptySuccess ==
    /\ pc = "no_files"
    /\ IF args.pattern # <<>>
       THEN /\ ReturnFiles("True")
            /\ UNCHANGED <<calls, stack, source_prefix>>
       ELSE \E logged, ok \in BOOLEAN :
               LET list(o) == S3Call("list_objects_v2", 0,
                                     normalize_prefix(source_prefix), o)
                   folders == IF ok THEN list_folders(source_prefix) ELSE <<>>
               IN  /\ calls' = calls \o <<list(logged), list(ok)>>
                   /\ IF folders # <<>> /\ IsCopyOrMove
                      THEN IF Len(stack) < MaxDepth
                           THEN /\ stack' = <<[source_prefix |-> source_prefix,
                                               folders |-> Tail(folders),
                                               all_folder_success |-> TRUE]>> \o stack
                                /\ source_prefix' = folders[1].Key
                                /\ Goto("process_files")
                           ELSE Raise /\ UNCHANGED <<stack, source_prefix>>
                      ELSE /\ ReturnFiles("True")
                           /\ UNCHANGED <<stack, source_prefix>>
    /\ matched_files' = <<>>
    /\ UNCHANGED <<store, success_count, failed_count, dest_exists, reported, i,
                   args, otherVars>>
    /\ WithinFaults

\* `if not matched_files:` a pattern that matches nothing is an error; without
\* a pattern list_folders is called (once for the log, once for the decision)
\* and a copy or move calls process_files for each folder found.
\* A call nested deeper than the interpreter allows raises RecursionError,
\* which no function of the tool catches before main().
process_files_no_files ==
    /\ pc = "no_files"
    /\ IF args.pattern # <<>>
       THEN /\ ReturnFiles("False")
            /\ UNCHANGED <<calls, stack, source_prefix>>
       ELSE \E logged, ok \in BOOLEAN :
               LET list(o) == S3Call("list_objects_v2", 0,
                                     normalize_prefix(source_prefix), o)
                   folders == IF ok THEN list_folders(source_prefix) ELSE <<>>
               IN  /\ calls' = calls \o <<list(logged), list(ok)>>
                   /\ IF folders # <<>> /\ IsCopyOrMove
                      THEN IF Len(stack) < MaxDepth
                           THEN /\ stack' = <<[source_prefix |-> source_prefix,
                                               folders |-> Tail(folders),
                                               all_folder_success |-> TRUE]>> \o stack
                                /\ source_prefix' = folders[1].Key
                                /\ Goto("process_files")
                           ELSE Raise /\ UNCHANGED <<stack, source_prefix>>
                      ELSE /\ ReturnFiles("True")
                           /\ UNCHANGED <<stack, source_prefix>>
    /\ matched_files' = <<>>
    /\ UNCHANGED <<store, success_count, failed_count, dest_exists, reported, i,
                   args, otherVars>>
    /\ WithinFaults

\* The return of a call of process_files: to main(), or into the loop over the
\* folders of the call that waits for it (`if not folder_success:
\* all_folder_success = False`; after the last folder
\* `return all_folder_success, []`).
process_files_return ==
    /\ pc = "return"
    /\ IF stack = <<>>
       THEN /\ Goto("main_exit")
            /\ UNCHANGED <<stack, source_prefix, matched_files>>
       ELSE LET frame == Head(stack)
                all_folder_success == frame.all_folder_success /\ result = "True"
            IN  IF frame.folders # <<>>
                THEN /\ stack' = <<[frame EXCEPT
                                       !.folders = Tail(frame.folders),
                                       !.all_folder_success = all_folder_success]>>
                                 \o Tail(stack)
                     /\ source_prefix' = frame.folders[1].Key
                     /\ result' = "none" /\ pc' = "process_files"
                     /\ exit_code' = exit_code
                     /\ matched_files' = <<>>
                ELSE /\ stack' = Tail(stack)
                     /\ source_prefix' = frame.source_prefix
                     /\ ReturnFiles(IF all_folder_success THEN "True" ELSE "False")
                     /\ matched_files' = <<>>
    /\ UNCHANGED <<calls, store, success_count, failed_count, dest_exists, reported,
                   i, args, otherVars>>

\* display_count = len(matched_files) if dryrun_count == -1
\*                 else min(dryrun_count, len(matched_files))
display_count ==
    IF dryrun_count = -1 \/ Len(matched_files) < dryrun_count
    THEN Len(matched_files) ELSE dryrun_count

\* A dry run that shows every file at the place a merge would give it.
process_files_dryrun_AlwaysMerge ==
    /\ pc = "dryrun"
    /\ reported' =
          IF IsCopyOrMove
          THEN reported \o
                   [k \in 1..display_count |->
                       LET source_key == matched_files[k].Key
                       IN  Placed(source_key,
                                  calculate_destination_key(source_key, source_prefix,
                                                            args.dest_prefix, TRUE),
                                  source_prefix)]
          ELSE reported
    /\ Goto("check_destination")
    /\ UNCHANGED <<calls, store, matched_files, success_count, failed_count,
                   dest_exists, stack, source_prefix, i, args, otherVars>>

\* if dryrun: the first display_count files are logged, a copy or move as
\* "source_key -> dest_key" with dest_key = calculate_destination_key(...).
\* (The confirmation that follows is skipped: `if not dryrun and ...`.)
process_files_dryrun ==
    /\ pc = "dryrun"
    /\ reported' =
          IF IsCopyOrMove
          THEN reported \o
                   [k \in 1..display_count |->
                       LET source_key == matched_files[k].Key
                       IN  Placed(source_key,
                                  calculate_destination_key(source_key, source_prefix,
                                                            args.dest_prefix, args.merge),
                                  source_prefix)]
          ELSE reported
    /\ Goto("check_destination")
    /\ UNCHANGED <<calls, store, matched_files, success_count, failed_count,
                   dest_exists, stack, source_prefix, i, args, otherVars>>

\* A confirmation whose answer is not looked at.
process_files_confirm_AnyAnswer ==
    /\ pc = "confirm"
    /\ IF args.operation \in {"delete", "move"} /\ args.pattern # <<>>
       THEN \E confirmation \in {"y", "n"} :
               calls' = Append(calls, S3Call("input", 0, <<>>, confirmation = "y"))
       ELSE calls' = calls
    /\ Goto("check_destination")
    /\ UNCHANGED <<store, matched_files, success_count, failed_count, dest_exists,
                   reported, stack, source_prefix, i, args, otherVars>>

\* if not dryrun and operation in ['delete', 'move'] and pattern:
\*     confirmation = input(...); `if confirmation.lower() != 'y': return False, None`
process_files_confirm ==
    /\ pc = "confirm"
    /\ IF args.operation \in {"delete", "move"} /\ args.pattern # <<>>
       THEN \E confirmation \in {"y", "n"} :
               /\ calls' = Append(calls, S3Call("input", 0, <<>>, confirmation = "y"))
               /\ IF confirmation = "y" THEN Goto("check_destination")
                  ELSE ReturnFiles("False")
       ELSE calls' = calls /\ Goto("check_destination")
    /\ UNCHANGED <<store, matched_files, success_count, failed_count, dest_exists,
                   reported, stack, source_prefix, i, args, otherVars>>

\* Where the loop over matched_files starts a unit.
UnitStart == IF args.operation = "delete" THEN "delete_file" ELSE "unit_folder"

\* A loop that starts whatever the validation of the destination returned.
process_files_check_destination_Unchecked ==
    /\ pc = "check_destination"
    /\ IF IsCopyOrMove
       THEN \E seen, access, listed, put \in BOOLEAN :
               LET made == check_and_create_folder(args.dest_prefix, Dryrun, 0,
                                                   access, listed, put)
               IN  /\ dest_exists' = check_prefix_exists(args.dest_prefix, seen)
                   /\ calls' = (calls \o <<S3Call("list_objects_v2", 0,
                                                  normalize_prefix(args.dest_prefix),
                                                  seen)>>) \o made.calls
                   /\ store' = made.store
                   /\ IF Dryrun THEN ReturnFiles("True") ELSE Goto(UnitStart)
       ELSE /\ UNCHANGED <<dest_exists, calls, store>>
            /\ IF Dryrun THEN ReturnFiles("True") ELSE Goto(UnitStart)
    /\ i' = 1 /\ success_count' = 0 /\ failed_count' = 0
    /\ UNCHANGED <<matched_files, reported, stack, source_prefix, args, otherVars>>
    /\ WithinFaults

\* if operation in ['copy', 'move']: dest_exists = check_prefix_exists(...);
\* `if not check_and_create_folder(dest_bucket, dest_prefix, dryrun): return False, None`;
\* `if dryrun: return True, matched_files`; success_count = 0; failed_count = 0
process_files_check_destination ==
    /\ pc = "check_destination"
    /\ IF IsCopyOrMove
       THEN \E seen, access, listed, put \in BOOLEAN :
               LET made == check_and_create_folder(args.dest_prefix, Dryrun, 0,
                                                   access, listed, put)
               IN  /\ dest_exists' = check_prefix_exists(args.dest_prefix, seen)
                   /\ calls' = (calls \o <<S3Call("list_objects_v2", 0,
                                                  normalize_prefix(args.dest_prefix),
                                                  seen)>>) \o made.calls
                   /\ store' = made.store
                   /\ IF ~made.ret THEN ReturnFiles("False")
                      ELSE IF Dryrun THEN ReturnFiles("True")
                      ELSE Goto(UnitStart)
       ELSE /\ UNCHANGED <<dest_exists, calls, store>>
            /\ IF Dryrun THEN ReturnFiles("True") ELSE Goto(UnitStart)
    /\ i' = 1 /\ success_count' = 0 /\ failed_count' = 0
    /\ UNCHANGED <<matched_files, reported, stack, source_prefix, args, otherVars>>
    /\ WithinFaults

\* dest_key = calculate_destination_key(source_key, source_prefix, dest_prefix, merge)
dest_key ==
    calculate_destination_key(matched_files[i].Key, source_prefix,
                              args.dest_prefix, args.merge)

\* process_copy_or_move, first half: `if '/' in dest_key:` parent_folder =
\* os.path.dirname(dest_key); `if parent_folder:` check_and_create_folder(...)
\* (what it returns is not looked at).
process_copy_or_move_folder ==
    /\ pc = "unit_folder"
    /\ LET parent_folder == dirname(dest_key)
       IN  IF contains(dest_key, <<"/">>) /\ parent_folder # <<>>
           THEN \E access, listed, put \in BOOLEAN :
                   LET made == check_and_create_folder(parent_folder, Dryrun, i,
                                                       access, listed, put)
                   IN  calls' = calls \o made.calls /\ store' = made.store
           ELSE UNCHANGED <<calls, store>>
    /\ Goto("copy_file")
    /\ UNCHANGED <<matched_files, success_count, failed_count, dest_exists,
                   reported, stack, source_prefix, i, args, otherVars>>
    /\ WithinFaults

\* A loop that counts the units that succeeded and no other.
NextUnit_SuccessOnly(success) ==
    /\ success_count' = IF success THEN success_count + 1 ELSE success_count
    /\ failed_count' = failed_count
    /\ i' = i + 1
    /\ Goto(IF i < Len(matched_files) THEN UnitStart ELSE "report")

\* `if success: success_count += 1 else: failed_count += 1`, then the next file
\* of matched_files or the end of the loop.
NextUnit(success) ==
    /\ success_count' = IF success THEN success_count + 1 ELSE success_count
    /\ failed_count' = IF success THEN failed_count ELSE failed_count + 1
    /\ i' = i + 1
    /\ Goto(IF i < Len(matched_files) THEN UnitStart ELSE "report")

\* The record of copy_file for unit n: the source key, the destination key and
\* the source_prefix of the call of process_files that copies it.
CopyCall(n, placed, ok) ==
    S3Call("copy_file", n, placed.key, ok)
        @@ [dest |-> placed.dest, prefix |-> placed.prefix]

\* success = copy_file(source_bucket, source_key, dest_bucket, dest_key, ...):
\* True with the object written at dest_key ("copied"); False on ClientError,
\* with nothing written ("failed") or, when a later version fails after the
\* current one was copied, with dest_key written ("partial"); any other
\* exception is not caught.  A move goes on to delete_file after a success.
copy_file ==
    /\ pc = "copy_file"
    /\ \E outcome \in {"copied", "failed", "partial", "raised"} :
          /\ calls' = Append(calls,
                 CopyCall(i, Placed(matched_files[i].Key, dest_key, source_prefix),
                          outcome = "copied"))
          /\ store' = IF outcome \in {"copied", "partial"}
                      THEN WithObject(store, dest_key, matched_files[i].Size)
                      ELSE store
          /\ IF outcome = "raised"
             THEN Raise /\ UNCHANGED <<success_count, failed_count, i>>
             ELSE IF outcome = "copied" /\ args.operation = "move"
             THEN Goto("delete_file") /\ UNCHANGED <<success_count, failed_count, i>>
             ELSE NextUnit(outcome = "copied")
    /\ UNCHANGED <<matched_files, dest_exists, reported, stack, source_prefix,
                   args, otherVars>>
    /\ WithinFaults

\* success = delete_file(source_bucket, key, ...), for a delete and for a move
\* after the copy has succeeded: True with the object gone; False on
\* ClientError or when no version is found; any other exception is not caught.
delete_file ==
    /\ pc = "delete_file"
    /\ \E outcome \in {"deleted", "failed", "raised"} :
          /\ calls' = Append(calls, S3Call("delete_file", i, matched_files[i].Key,
                                           outcome = "deleted"))
          /\ store' = IF outcome = "deleted"
                      THEN {o \in store : o.Key # matched_files[i].Key}
                      ELSE store
          /\ IF outcome = "raised"
             THEN Raise /\ UNCHANGED <<success_count, failed_count, i>>
             ELSE NextUnit(outcome = "deleted")
    /\ UNCHANGED <<matched_files, dest_exists, reported, stack, source_prefix,
                   args, otherVars>>
    /\ WithinFaults

\* return failed_count == 0, matched_files
process_files_report ==
    /\ pc = "report"
    /\ ReturnFiles(IF failed_count = 0 THEN "True" ELSE "False")
    /\ UNCHANGED <<calls, batchVars, i, args, otherVars>>

\* main(): `if not success: sys.exit(1)`; a list ends with sys.exit(0), the
\* other operations by falling off the end of main().
cleanup_main ==
    /\ pc = "main_exit"
    /\ exit_code' = IF result = "True" THEN 0 ELSE 1
    /\ pc' = "exited"
    /\ UNCHANGED <<result, calls, batchVars, i, args, otherVars>>

-----------------------------------------------------------------------------
(* s3_handler_to_synapse.py: transfer_s3_to_synapse.  matched_files is the   *)
(* local `keys`, i the position of `key` in it, success_count the local     *)
(* `success`.  Every helper catches Exception and returns None; only         *)
(* create_external_s3_location ends the process.                            *)

\* `continue`, or the end of the loop body: the next key, or
\* `return success, total` after the last one.
NextKey(success) ==
    /\ i' = i + 1
    /\ IF i < Len(matched_files)
       THEN pc' = "get_s3_file_info" /\ result' = result
       ELSE pc' = "returned" /\ result' = <<success, Len(matched_files)>>

\* `if not keys: return 0, 0`; storage_location = create_external_s3_location(...)
\* (sys.exit(1) when it fails); success = 0; total = len(keys)
transfer_s3_to_synapse ==
    /\ mode = "synapse" /\ pc = "transfer_s3_to_synapse"
    /\ IF matched_files = <<>>
       THEN /\ pc' = "returned" /\ result' = <<0, 0>>
            /\ UNCHANGED <<calls, i, exit_code>>
       ELSE \E ok \in BOOLEAN :
               /\ calls' = Append(calls, S3Call("create_external_s3_location", 0, <<>>, ok))
               /\ pc' = IF ok THEN "get_s3_file_info" ELSE "exited"
               /\ exit_code' = IF ok THEN exit_code ELSE 1
               /\ i' = 1 /\ result' = result
    /\ success_count' = 0
    /\ UNCHANGED <<otherVars, args, store, matched_files, failed_count,
                   dest_exists, reported, stack, source_prefix>>

\* file_info = get_s3_file_info(bucket, key); `if not file_info: continue`
get_s3_file_info ==
    /\ pc = "get_s3_file_info"
    /\ \E ok \in BOOLEAN :
          /\ calls' = Append(calls, S3Call("get_s3_file_info", i, matched_files[i], ok))
          /\ IF ok THEN pc' = "calculate_md5" /\ UNCHANGED <<i, result>>
             ELSE NextKey(success_count)
    /\ UNCHANGED <<success_count, exit_code, otherVars, args, store, matched_files,
                   failed_count, dest_exists, reported, stack, source_prefix>>

\* `if calculate_hashes: md5 = calculate_md5(bucket, key)`, with the MD5 of the
\* empty string when it fails; the same value without a call otherwise.
calculate_md5 ==
    /\ pc = "calculate_md5"
    /\ IF args.calculate_hashes
       THEN \E ok \in BOOLEAN :
               calls' = Append(calls, S3Call("calculate_md5", i, matched_files[i], ok))
       ELSE calls' = calls
    /\ pc' = "create_s3_file_handle"
    /\ UNCHANGED <<i, result, success_count, exit_code, otherVars, args, store,
                   matched_files, failed_count, dest_exists, reported, stack,
                   source_prefix>>

\* A failed file handle that is stored all the same.
create_s3_file_handle_StoresAnyway ==
    /\ pc = "create_s3_file_handle"
    /\ \E ok \in BOOLEAN :
          /\ calls' = Append(calls, S3Call("create_s3_file_handle", i, matched_files[i], ok))
          /\ pc' = "store_file_in_synapse" /\ UNCHANGED <<i, result>>
    /\ UNCHANGED <<success_count, exit_code, otherVars, args, store, matched_files,
                   failed_count, dest_exists, reported, stack, source_prefix>>

\* file_handle = create_s3_file_handle(...); `if not file_handle: continue`
create_s3_file_handle ==
    /\ pc = "create_s3_file_handle"
    /\ \E ok \in BOOLEAN :
          /\ calls' = Append(calls, S3Call("create_s3_file_handle", i, matched_files[i], ok))
          /\ IF ok THEN pc' = "store_file_in_synapse" /\ UNCHANGED <<i, result>>
             ELSE NextKey(success_count)
    /\ UNCHANGED <<success_count, exit_code, otherVars, args, store, matched_files,
                   failed_count, dest_exists, reported, stack, source_prefix>>

\* result = store_file_in_synapse(...); `if result: success += 1`
store_file_in_synapse ==
    /\ pc = "store_file_in_synapse"
    /\ \E ok \in BOOLEAN :
          LET success == IF ok THEN success_count + 1 ELSE success_count
          IN  /\ calls' = Append(calls,
                     S3Call("store_file_in_synapse", i, matched_files[i], ok))
              /\ success_count' = success
              /\ NextKey(success)
    /\ UNCHANGED <<exit_code, otherVars, args, store, matched_files, failed_count,
                   dest_exists, reported, stack, source_prefix>>

-----------------------------------------------------------------------------
(* ftp_transfer.py: main() and S3FTPTransfer.connect_ftp                    *)

\* One connection attempt (_connect_sftp / _connect_ftps / _connect_ftp): it
\* either sets self.ftp_connection or raises.
Attempt(p, ok) ==
    /\ attempts' = Append(attempts, [p |-> p, ok |-> ok])
    /\ ftp_connection' = IF ok THEN p ELSE ftp_connection

\* transfer.connect_s3(): a failure is sys.exit(1), which `except Exception`
\* does not catch; the finally clause still runs.
main_connect_s3 ==
    /\ mode = "main" /\ pc = "main"
    /\ \E ok \in BOOLEAN :
          /\ calls' = Append(calls, Simple("connect_s3", ok))
          /\ pc' = IF ok THEN "connect_ftp" ELSE "finally"
          /\ exit_code' = IF ok THEN exit_code ELSE 1
    /\ UNCHANGED <<protocol, ftp_connection, args, attempts>>
    /\ UNCHANGED <<locals, result, s3_dest, envVars>>

\* An auto mode that starts with plain FTP.
connect_ftp_auto_sftp_FtpFirst ==
    /\ pc = "connect_ftp" /\ protocol = "auto"
    /\ \E ok \in BOOLEAN :
          /\ Attempt("ftp", ok)
          /\ protocol' = IF ok THEN "ftp" ELSE protocol
          /\ pc' = IF ok THEN "transfer" ELSE "auto_ftps"
    /\ UNCHANGED <<args, exit_code, calls, locals, result, s3_dest, envVars>>

\* if self.protocol == 'auto': try: self._connect_sftp(); self.protocol = 'sftp'
connect_ftp_auto_sftp ==
    /\ pc = "connect_ftp" /\ protocol = "auto"
    /\ \E ok \in BOOLEAN :
          /\ Attempt("sftp", ok)
          /\ protocol' = IF ok THEN "sftp" ELSE protocol
          /\ pc' = IF ok THEN "transfer" ELSE "auto_ftps"
    /\ UNCHANGED <<args, exit_code, calls, locals, result, s3_dest, envVars>>

\* except Exception: try: self._connect_ftps(); self.protocol = 'ftps'
connect_ftp_auto_ftps ==
    /\ pc = "auto_ftps"
    /\ \E ok \in BOOLEAN :
          /\ Attempt("ftps", ok)
          /\ protocol' = IF ok THEN "ftps" ELSE protocol
          /\ pc' = IF ok THEN "transfer" ELSE "auto_ftp"
    /\ UNCHANGED <<args, exit_code, calls, locals, result, s3_dest, envVars>>

\* A last auto attempt whose failure is swallowed.
connect_ftp_auto_ftp_NotFatal ==
    /\ pc = "auto_ftp"
    /\ \E ok \in BOOLEAN :
          /\ Attempt("ftp", ok)
          /\ protocol' = IF ok THEN "ftp" ELSE protocol
          /\ pc' = "transfer"
    /\ UNCHANGED <<args, exit_code, calls, locals, result, s3_dest, envVars>>

\* except Exception: try: self._connect_ftp(); self.protocol = 'ftp'
\* except Exception: "All connection attempts failed"; sys.exit(1)
connect_ftp_auto_ftp ==
    /\ pc = "auto_ftp"
    /\ \E ok \in BOOLEAN :
          /\ Attempt("ftp", ok)
          /\ protocol' = IF ok THEN "ftp" ELSE protocol
          /\ pc' = IF ok THEN "transfer" ELSE "finally"
          /\ exit_code' = IF ok THEN exit_code ELSE 1
    /\ UNCHANGED <<args, calls, locals, result, s3_dest, envVars>>

\* elif self.protocol == 'sftp' / 'ftps' / 'ftp': the one named connector; its
\* exception reaches main()'s `except Exception`, which is sys.exit(1).
connect_ftp_explicit ==
    /\ pc = "connect_ftp" /\ protocol \in {"sftp", "ftps", "ftp"}
    /\ \E ok \in BOOLEAN :
          /\ Attempt(protocol, ok)
          /\ pc' = IF ok THEN "transfer" ELSE "finally"
          /\ exit_code' = IF ok THEN exit_code ELSE 1
    /\ UNCHANGED <<protocol, args, calls, locals, result, s3_dest, envVars>>

\* The transfer operation main() selects from args.mode and args.bulk.
Operation(a) ==
    IF a.mode = "upload"
    THEN (IF a.bulk THEN "bulk_upload_to_s3" ELSE "upload_to_s3")
    ELSE (IF a.bulk THEN "bulk_download_from_s3" ELSE "download_from_s3")

\* if args.mode == 'upload' / 'download' without --bulk: the one transfer; its
\* outcome is logged and nothing else.
main_transfer ==
    /\ pc = "transfer" /\ ~args.bulk
    /\ \E success \in BOOLEAN :
          /\ calls' = Append(calls, Simple(Operation(args), success))
          /\ result' = IF success THEN "True" ELSE "False"
    /\ pc' = "finally"
    /\ UNCHANGED <<connVars, locals, s3_dest, envVars>>

\* The call with which a bulk loop lists its units, and the one it makes per unit.
ListOp(a) == IF a.mode = "upload" THEN "list_files" ELSE "list_s3_files"

UnitOp(a) == IF a.mode = "upload" THEN "upload_to_s3" ELSE "download_from_s3"

\* One entry of a listing: the position of the name in the listing, and whether
\* it is a directory (bulk upload) or a key ending in "/" (bulk download).
File(n, is_dir) == [name |-> n, is_dir |-> is_dir]

\* files = self.list_files(ftp_dir) / self.list_s3_files(...): [] when the
\* listing raises; total = len(files); `if total == 0: return 0, 0`; success = 0
bulk_list(files) ==
    /\ pc = "transfer" /\ args.bulk
    /\ \E ok \in BOOLEAN :
          /\ calls' = Append(calls, Simple(ListOp(args), ok))
          /\ matched_files' = IF ok THEN files ELSE <<>>
          /\ pc' = IF ok /\ files # <<>> THEN "bulk_loop" ELSE "finally"
    /\ i' = 1 /\ success_count' = 0
    /\ result' = result
    /\ UNCHANGED <<ftp_file_size, optimal_chunk_size, multipart_upload, parts,
                   file_pos, chunk>>
    /\ UNCHANGED <<connVars, s3_dest, runVars>>
    /\ UNCHANGED <<store, failed_count, dest_exists, reported, stack, source_prefix>>

\* for i, file_name in enumerate(files, 1): (upload over SFTP: stat the entry,
\* `continue` on a directory, go on when stat raises; download: `continue` on a
\* key ending in "/"); `if self.upload_to_s3(...)` / `if self.download_from_s3(...)`:
\* success += 1.  Neither function raises: each catches Exception.
bulk_unit ==
    /\ pc = "bulk_loop"
    /\ LET file == matched_files[i]
           checked == args.mode = "upload" /\ protocol = "sftp"
       IN  \E stat_ok, success \in BOOLEAN :
              LET seen == IF checked THEN <<Simple("stat", stat_ok)>> ELSE <<>>
                  skip == /\ file.is_dir
                          /\ (args.mode = "upload" => checked /\ stat_ok)
              IN  /\ calls' = calls \o (IF args.mode = "upload" THEN seen ELSE <<>>)
                                \o (IF skip THEN <<>>
                                    ELSE <<Call(UnitOp(args), i, None, None, success, <<>>)>>)
                  /\ success_count' = IF ~skip /\ success THEN success_count + 1
                                      ELSE success_count
                  /\ pc' = IF i < Len(matched_files) THEN "bulk_loop" ELSE "finally"
    /\ i' = i + 1
    /\ result' = result
    /\ UNCHANGED <<ftp_file_size, optimal_chunk_size, multipart_upload, parts,
                   file_pos, chunk>>
    /\ UNCHANGED <<connVars, s3_dest, runVars>>
    /\ UNCHANGED <<store, matched_files, failed_count, dest_exists, reported,
                   stack, source_prefix>>

\* A disconnect that lets the error of close()/quit() escape.
disconnect_Propagates(closed, transport, transport_closed) ==
    IF ftp_connection = "None" THEN [calls |-> <<>>, raised |-> FALSE]
    ELSE IF protocol = "sftp"
    THEN [calls |-> <<Simple("close", closed)>>
                      \o (IF closed /\ transport
                          THEN <<Simple("transport.close", transport_closed)>>
                          ELSE <<>>),
          raised |-> ~closed \/ (transport /\ ~transport_closed)]
    ELSE [calls |-> <<Simple("quit", closed)>>, raised |-> ~closed]

\* S3FTPTransfer.disconnect: `if self.ftp_connection:` try: (sftp) close();
\* transport = get_transport(); `if transport:` transport.close() / (else) quit();
\* except Exception: a warning.  The calls it makes, and whether it raises.
disconnect(closed, transport, transport_closed) ==
    IF ftp_connection = "None" THEN [calls |-> <<>>, raised |-> FALSE]
    ELSE IF protocol = "sftp"
    THEN [calls |-> <<Simple("close", closed)>>
                      \o (IF closed /\ transport
                          THEN <<Simple("transport.close", transport_closed)>>
                          ELSE <<>>),
          raised |-> FALSE]
    ELSE [calls |-> <<Simple("quit", closed)>>, raised |-> FALSE]

\* finally: transfer.disconnect().  The record "disconnect" says whether the
\* call returned normally; an exception leaving the finally clause would end the
\* process with status 1.  Otherwise the process ends with the status of
\* sys.exit, 0 when main() falls off its end.
main_finally ==
    /\ pc = "finally"
    /\ \E closed, transport, transport_closed \in BOOLEAN :
          LET d == disconnect(closed, transport, transport_closed)
          IN  /\ calls' = (calls \o d.calls) \o <<Simple("disconnect", ~d.raised)>>
              /\ exit_code' = IF d.raised THEN 1
                              ELSE IF exit_code = -1 THEN 0 ELSE exit_code
    /\ pc' = "exited"
    /\ UNCHANGED <<protocol, ftp_connection, args, attempts>>
    /\ UNCHANGED <<locals, result, s3_dest, envVars>>

-----------------------------------------------------------------------------
(* Specifications                                                           *)

\* Sizes go up to MaxParts chunks of the minimum size, plus one byte.
MaxParts == 3

\* Sizes around each boundary: the boundary and up to MaxDelta bytes off it.
MaxDelta == 2

\* The same upload is started at most MaxRuns times.
MaxRuns == 2

\* A bulk listing has at most MaxFiles entries.
MaxFiles == 2

\* The listings of a remote directory / of a key prefix.
Listings ==
    UNION {[1..n -> BOOLEAN] : n \in 0..MaxFiles}

Protocols == {"sftp", "ftps", "ftp"}

NoArgs == [protocol |-> "auto", mode |-> "upload", bulk |-> FALSE]

LocalsIdle ==
    /\ ftp_file_size = None /\ optimal_chunk_size = None
    /\ multipart_upload = 0 /\ parts = <<>> /\ i = 0
    /\ file_pos = Wide(0) /\ chunk = NoChunk

\* No batch has started and nothing was downloaded.
BatchIdle ==
    /\ temp_file = <<>> /\ remote_file = <<>> /\ versions = <<>>
    /\ store = {} /\ matched_files = <<>>
    /\ success_count = 0 /\ failed_count = 0
    /\ dest_exists = FALSE /\ reported = <<>>
    /\ stack = <<>> /\ source_prefix = <<>>

Around(b) ==
    {WAdd(b, Wide(d)) : d \in 0..MaxDelta}
        \cup {WSub(b, Wide(d)) : d \in {e \in 0..MaxDelta : WLe(Wide(e), b)}}

TiB == WMul(WMul(MiB, 1024), 1024)

PlanSizes ==
    UNION {Around(b) : b \in {Wide(0), MIN_CHUNK_SIZE, DEFAULT_CHUNK_SIZE,
                              WMul(MIN_CHUNK_SIZE, MAX_PARTS),
                              WMul(DEFAULT_CHUNK_SIZE, MAX_PARTS),
                              WMul(TiB, 5)}}

PlanChunks ==
    {None} \cup Around(Wide(0)) \cup Around(MIN_CHUNK_SIZE)
        \cup {DEFAULT_CHUNK_SIZE, target_part_size}

UploadSizes ==
    {WAdd(WMul(MIN_CHUNK_SIZE, k), Wide(d)) : k \in 0..MaxParts, d \in 0..1}
        \cup {WAdd(DEFAULT_CHUNK_SIZE, Wide(1))}

UserChunks ==
    {None, MIN_CHUNK_SIZE, WSub(MIN_CHUNK_SIZE, Wide(1)), DEFAULT_CHUNK_SIZE}

CopySizes ==
    {Wide(0), MIN_CHUNK_SIZE} \cup Around(MAX_DIRECT_COPY_SIZE)
        \cup {WMul(WMul(MiB, 1024), 5)}

\* The planner applied to one object size and one user chunk size.
InitPlan ==
    /\ mode = "upload" /\ pc = "plan"
    /\ src_size \in PlanSizes /\ ftp_file_size = src_size
    /\ chunk_size \in PlanChunks
    /\ optimal_chunk_size = None
    /\ multipart_upload = 0 /\ parts = <<>> /\ i = 0
    /\ file_pos = Wide(0) /\ chunk = NoChunk
    /\ protocol = "sftp" /\ ftp_connection = "sftp"
    /\ args = NoArgs /\ attempts = <<>> /\ exit_code = -1
    /\ result = "none" /\ prev_result = "none" /\ run = 1
    /\ s3_dest = NoObject /\ s3_before = s3_dest /\ calls = <<>>
    /\ BatchIdle

SpecPlan == InitPlan /\ [][upload_to_s3_plan]_vars

\* Object sizes for which the copy runs in parts: above MAX_DIRECT_COPY_SIZE,
\* up to the 5 TiB an object can have.
PartSizes ==
    {sz \in UNION {Around(b) : b \in {MAX_DIRECT_COPY_SIZE, WMul(TiB, 5),
                                      WMul(target_part_size, MAX_PARTS)}
                                     \cup {WMul(TiB, k) : k \in 1..4}
                                     \cup {WMul(MiB, 1024 * k) : k \in 5..8}} :
        WLt(MAX_DIRECT_COPY_SIZE, sz) /\ WLe(sz, WMul(TiB, 5))}

\* The part size of a multipart copy, for one large source object.
InitParts ==
    /\ mode = "copy" /\ pc = "copy_with_metadata_preservation"
    /\ protocol = "sftp" /\ ftp_connection = protocol
    /\ src_size \in PartSizes /\ chunk_size = None
    /\ s3_dest = NoObject /\ s3_before = s3_dest
    /\ LocalsIdle
    /\ args = NoArgs /\ attempts = <<>> /\ exit_code = -1
    /\ result = "none" /\ prev_result = "none" /\ run = 1
    /\ calls = <<>>
    /\ BatchIdle

SpecParts ==
    InitParts /\ [][copy_with_metadata_preservation \/ multipart_copy_head
                        \/ multipart_copy_create]_vars

\* One transfer: an upload from the connected server, or an object-store copy.
Init ==
    /\ mode \in {"upload", "copy"}
    /\ protocol \in Protocols /\ ftp_connection = protocol
    /\ IF mode = "upload"
       THEN /\ pc = "upload_to_s3"
            /\ src_size \in UploadSizes \cup {None}
            /\ chunk_size \in UserChunks
       ELSE /\ pc = "copy_with_metadata_preservation"
            /\ protocol = "sftp"
            /\ src_size \in CopySizes
            /\ chunk_size = None
    /\ s3_dest \in {NoObject, Old(Wide(7))}
                      \cup (IF src_size = None THEN {} ELSE {Old(src_size)})
    /\ s3_before = s3_dest
    /\ LocalsIdle
    /\ args = NoArgs /\ attempts = <<>> /\ exit_code = -1
    /\ result = "none" /\ prev_result = "none" /\ run = 1
    /\ calls = <<>>
    /\ BatchIdle

\* The caller starts the same upload again (bulk runs, a re-run of the tool).
Repeat ==
    /\ mode = "upload" /\ pc = "done" /\ run < MaxRuns
    /\ run' = run + 1 /\ prev_result' = result /\ s3_before' = s3_dest
    /\ pc' = "upload_to_s3" /\ result' = "none" /\ calls' = <<>>
    /\ ftp_file_size' = None /\ optimal_chunk_size' = None
    /\ multipart_upload' = 0 /\ parts' = <<>> /\ i' = 0
    /\ file_pos' = Wide(0) /\ chunk' = NoChunk
    /\ UNCHANGED <<s3_dest, connVars, src_size, chunk_size, mode, batchVars,
                   temp_file, remote_file, versions>>

Next ==
    \/ upload_to_s3_size \/ upload_to_s3_plan \/ upload_to_s3_head
    \/ upload_sftp_open \/ upload_sftp_read \/ upload_sftp_put \/ upload_sftp_close
    \/ upload_sftp_create \/ upload_sftp_read_chunk \/ upload_sftp_upload_part
    \/ upload_sftp_complete \/ upload_sftp_except
    \/ upload_ftp_branch \/ upload_ftp_retr \/ upload_ftp_put
    \/ upload_ftp_create \/ upload_ftp_retr_chunk \/ upload_ftp_upload_part
    \/ upload_ftp_complete \/ upload_ftp_except
    \/ copy_with_metadata_preservation \/ copy_object
    \/ multipart_copy_head \/ multipart_copy_create \/ multipart_copy_part
    \/ multipart_copy_complete \/ multipart_copy_except
    \/ Repeat

Spec == Init /\ [][Next]_vars

\* One upload followed by the download of the object at its key.
InitRound == Init /\ mode = "upload"

NextRound ==
    \/ upload_to_s3_size \/ upload_to_s3_plan \/ upload_to_s3_head
    \/ upload_sftp_open \/ upload_sftp_read \/ upload_sftp_put \/ upload_sftp_close
    \/ upload_sftp_create \/ upload_sftp_read_chunk \/ upload_sftp_upload_part
    \/ upload_sftp_complete \/ upload_sftp_except
    \/ upload_ftp_branch \/ upload_ftp_retr \/ upload_ftp_put
    \/ upload_ftp_create \/ upload_ftp_retr_chunk \/ upload_ftp_upload_part
    \/ upload_ftp_complete \/ upload_ftp_except
    \/ download_from_s3
    \/ download_sftp_get \/ download_sftp_write \/ download_sftp_open
    \/ download_sftp_get_chunk \/ download_sftp_write_chunk
    \/ download_ftp_fileobj \/ download_ftp_get_chunk \/ download_ftp_stor

SpecRound == InitRound /\ [][NextRound]_vars

\* A source key has at most MaxVersions versions.
MaxVersions == 3

\* The sizes of the versions that are not the current one.
VersionSizes == {MIN_CHUNK_SIZE, WAdd(MAX_DIRECT_COPY_SIZE, Wide(1))}

\* One call of copy_file on a key and its versions.
InitCopy ==
    /\ mode = "copy" /\ pc = "copy_file"
    /\ protocol = "sftp" /\ ftp_connection = protocol
    /\ src_size \in CopySizes /\ chunk_size = None
    /\ \E older \in UNION {[1..n -> VersionSizes] : n \in 0..(MaxVersions - 1)} :
          versions = <<src_size>> \o older
    /\ args \in [current_version_only : BOOLEAN, operation : {"copy", "move"}]
    /\ s3_dest \in {NoObject, Old(Wide(7))} /\ s3_before = s3_dest
    /\ LocalsIdle
    /\ attempts = <<>> /\ exit_code = -1
    /\ result = "none" /\ prev_result = "none" /\ run = 1
    /\ calls = <<>>
    /\ temp_file = <<>> /\ remote_file = <<>>
    /\ store = {} /\ matched_files = <<>>
    /\ success_count = 0 /\ failed_count = 0
    /\ dest_exists = FALSE /\ reported = <<>>
    /\ stack = <<>> /\ source_prefix = <<>>

NextCopy ==
    \/ copy_file_start
    \/ copy_with_metadata_preservation \/ copy_object
    \/ multipart_copy_head \/ multipart_copy_create \/ multipart_copy_part
    \/ multipart_copy_complete \/ multipart_copy_except
    \/ copy_file_versions \/ copy_file_version
    \/ delete_file_versions

SpecCopy == InitCopy /\ [][NextCopy]_vars

\* One run of main(), up to the exit of the process.
InitMain ==
    /\ mode = "main" /\ pc = "main"
    /\ args \in [protocol : {"auto", "sftp", "ftps", "ftp"},
                 mode : {"upload", "download"}, bulk : BOOLEAN]
    /\ protocol = args.protocol /\ ftp_connection = "None"
    /\ attempts = <<>> /\ exit_code = -1
    /\ src_size = None /\ chunk_size = DEFAULT_CHUNK_SIZE
    /\ s3_dest = NoObject /\ s3_before = s3_dest
    /\ LocalsIdle
    /\ result = "none" /\ prev_result = "none" /\ run = 1
    /\ calls = <<>>
    /\ BatchIdle

NextMain ==
    \/ main_connect_s3
    \/ connect_ftp_auto_sftp \/ connect_ftp_auto_ftps \/ connect_ftp_auto_ftp
    \/ connect_ftp_explicit
    \/ main_transfer \/ main_finally
    \/ \E l \in Listings : bulk_list([k \in 1..Len(l) |-> File(k, l[k])])
    \/ bulk_unit

SpecMain == InitMain /\ [][NextMain]_vars

\* The units of the transfer tool and the loops that run them: one upload
\* followed by one download, or one run of main().
SpecUnits == (InitRound \/ InitMain) /\ [][NextRound \/ NextMain]_vars

\* Prefixes given on the command line have at most MaxLen characters.
MaxLen == 3

Chars == {"/", "a", "b"}

Strings(n) == UNION {[1..k -> Chars] : k \in 0..n}

\* The paths below a source prefix that the placement is applied to.
RelativePaths == {<<"a">>, <<"b", "/", "a">>, <<"a", "/", "b", "/", "a">>}

\* The command line of the copy/move/delete tool (parse_args).
Args(operation, src_prefix, dest_prefix, pattern, merge, dryrun) ==
    [operation |-> operation, source_prefix |-> src_prefix,
     dest_prefix |-> dest_prefix, pattern |-> pattern.text,
     pattern_type |-> pattern.type, merge |-> merge, dryrun |-> dryrun]

\* calculate_destination_key applied to one key, source prefix, destination
\* prefix and merge flag: keys under the normalized source prefix, and keys
\* that are not.
InitPlace ==
    /\ mode = "place" /\ pc = "calculate_destination_key"
    /\ \E src \in Strings(MaxLen), dst \in Strings(MaxLen), merge \in BOOLEAN :
          /\ args = Args("copy", src, dst, [type |-> "glob", text |-> <<>>], merge, <<>>)
          /\ source_prefix = src
          /\ \E rel \in RelativePaths, under \in BOOLEAN :
                matched_files =
                    <<[Key |-> IF under THEN normalize_prefix(src) \o rel ELSE rel]>>
    /\ store = {} /\ success_count = 0 /\ failed_count = 0
    /\ dest_exists = FALSE /\ reported = <<>> /\ stack = <<>>
    /\ temp_file = <<>> /\ remote_file = <<>> /\ versions = <<>>
    /\ protocol = "sftp" /\ ftp_connection = "None"
    /\ attempts = <<>> /\ exit_code = -1
    /\ src_size = None /\ chunk_size = None
    /\ s3_dest = NoObject /\ s3_before = s3_dest
    /\ LocalsIdle
    /\ result = "none" /\ prev_result = "none" /\ run = 1
    /\ calls = <<>>

SpecPlace == InitPlace /\ [][place \/ bulk_download_place]_vars

\* The objects under the source prefix a (two files, the marker of the prefix
\* and the marker of a sub-folder), and those at the destination x.
SourceObjects ==
    {Object(<<"a", "/", "f">>, 1), Object(<<"a", "/", "c", "/", "g">>, 1),
     Object(<<"a", "/", "c", "/">>, 0), Object(<<"a", "/">>, 0)}

DestObjects == {Object(<<"x", "/">>, 0)}

\* No pattern, a name, and a recursive glob ("**/g").
Patterns ==
    {[type |-> "glob", text |-> <<>>], [type |-> "exact", text |-> <<"f">>],
     [type |-> "glob", text |-> <<"*", "*", "/", "g">>]}

\* One run of the copy/move/delete tool on a bucket.
InitFiles ==
    /\ mode = "files" /\ pc = "process_files"
    /\ \E operation \in {"copy", "move", "delete", "list"},
          dst \in {<<"x">>, <<>>}, pattern \in Patterns, merge \in BOOLEAN,
          dryrun \in {<<>>, <<-1>>, <<1>>} :
             /\ args = Args(operation, <<"a">>, dst, pattern, merge, dryrun)
             /\ operation \in {"delete", "list"} => dst = <<>> /\ ~merge
    /\ source_prefix = args.source_prefix
    /\ \E src \in SUBSET SourceObjects, dst \in SUBSET DestObjects :
          store = src \cup dst
    /\ matched_files = <<>> /\ success_count = 0 /\ failed_count = 0
    /\ dest_exists = FALSE /\ reported = <<>> /\ stack = <<>>
    /\ temp_file = <<>> /\ remote_file = <<>> /\ versions = <<>>
    /\ protocol = "sftp" /\ ftp_connection = "None"
    /\ attempts = <<>> /\ exit_code = -1
    /\ src_size = None /\ chunk_size = None
    /\ s3_dest = NoObject /\ s3_before = s3_dest
    /\ LocalsIdle
    /\ result = "none" /\ prev_result = "none" /\ run = 1
    /\ calls = <<>>

\* The tool is run again with the same command line but without --dryrun, on
\* the bucket the dry run has left.
Rerun ==
    /\ mode = "files" /\ pc = "exited" /\ Dryrun /\ run < MaxRuns
    /\ args' = [args EXCEPT !.dryrun = <<>>]
    /\ run' = run + 1 /\ prev_result' = result
    /\ pc' = "process_files" /\ result' = "none" /\ exit_code' = -1
    /\ calls' = <<>> /\ matched_files' = <<>>
    /\ success_count' = 0 /\ failed_count' = 0 /\ dest_exists' = FALSE
    /\ i' = 0
    /\ UNCHANGED <<store, reported, stack, source_prefix>>
    /\ UNCHANGED <<protocol, ftp_connection, attempts, ftp_file_size,
                   optimal_chunk_size, multipart_upload, parts, file_pos, chunk,
                   s3_dest, src_size, chunk_size, mode, s3_before, temp_file,
                   remote_file, versions>>

NextFiles ==
    \/ process_files_list \/ process_files_match \/ process_files_no_files
    \/ process_files_return \/ process_files_dryrun \/ process_files_confirm
    \/ process_files_check_destination
    \/ process_copy_or_move_folder \/ copy_file \/ delete_file
    \/ process_files_report \/ cleanup_main
    \/ Rerun

SpecFiles == InitFiles /\ [][NextFiles]_vars

\* Folder placeholders under the source prefix a, among them keys with an empty
\* folder name (two separators in a row), and one file.
DescentObjects ==
    {Object(<<"a", "/">>, 0), Object(<<"a", "/", "c", "/">>, 0),
     Object(<<"a", "/", "/">>, 0), Object(<<"a", "/", "c", "/", "/">>, 0),
     Object(<<"a", "/", "c", "/", "g">>, 1)}

\* One run of the copy/move/delete tool on a bucket of folder placeholders.
InitDescent ==
    /\ mode = "files" /\ pc = "process_files"
    /\ \E operation \in {"copy", "move", "delete", "list"},
          dst \in {<<"x">>, <<>>}, merge \in BOOLEAN, dryrun \in {<<>>, <<-1>>} :
             /\ args = Args(operation, <<"a">>, dst,
                            [type |-> "glob", text |-> <<>>], merge, dryrun)
             /\ operation \in {"delete", "list"} => dst = <<>> /\ ~merge
    /\ source_prefix = args.source_prefix
    /\ store \in SUBSET DescentObjects
    /\ matched_files = <<>> /\ success_count = 0 /\ failed_count = 0
    /\ dest_exists = FALSE /\ reported = <<>> /\ stack = <<>>
    /\ temp_file = <<>> /\ remote_file = <<>> /\ versions = <<>>
    /\ protocol = "sftp" /\ ftp_connection = "None"
    /\ attempts = <<>> /\ exit_code = -1
    /\ src_size = None /\ chunk_size = None
    /\ s3_dest = NoObject /\ s3_before = s3_dest
    /\ LocalsIdle
    /\ result = "none" /\ prev_result = "none" /\ run = 1
    /\ calls = <<>>

SpecDescent == InitDescent /\ [][NextFiles]_vars

\* The keys found under the path given to the Synapse transfer.
FoundKeys == <<<<"a", "/", "f">>, <<"a", "/", "g">>, <<"a", "/", "c", "/", "g">>>>

\* One call of transfer_s3_to_synapse, with the first keys of the listing.
InitSynapse ==
    /\ mode = "synapse" /\ pc = "transfer_s3_to_synapse"
    /\ \E calculate_hashes \in BOOLEAN : args = [calculate_hashes |-> calculate_hashes]
    /\ \E n \in 0..(MaxFiles + 1) : matched_files = SubSeq(FoundKeys, 1, n)
    /\ store = {} /\ success_count = 0 /\ failed_count = 0
    /\ dest_exists = FALSE /\ reported = <<>> /\ stack = <<>> /\ source_prefix = <<>>
    /\ temp_file = <<>> /\ remote_file = <<>> /\ versions = <<>>
    /\ protocol = "sftp" /\ ftp_connection = "None"
    /\ attempts = <<>> /\ exit_code = -1
    /\ src_size = None /\ chunk_size = None
    /\ s3_dest = NoObject /\ s3_before = s3_dest
    /\ LocalsIdle
    /\ result = "none" /\ prev_result = "none" /\ run = 1
    /\ calls = <<>>

SpecSynapse ==
    InitSynapse /\ [][transfer_s3_to_synapse \/ get_s3_file_info \/ calculate_md5
                          \/ create_s3_file_handle \/ store_file_in_synapse]_vars

\* One call of check_and_create_folder(bucket, args.dest_prefix, dryrun), the
\* run-th in a row on the same bucket; it returns True or False.
create_folder ==
    /\ mode = "folder" /\ pc = "check_and_create_folder"
    /\ \E access, listed, put \in BOOLEAN :
          LET made == check_and_create_folder(args.dest_prefix, Dryrun, run,
                                              access, listed, put)
          IN  /\ calls' = calls \o made.calls
              /\ store' = made.store
              /\ result' = IF made.ret THEN "True" ELSE "False"
    /\ run' = run + 1
    /\ pc' = IF run < MaxRuns THEN pc ELSE "done"
    /\ UNCHANGED <<matched_files, success_count, failed_count, dest_exists,
                   reported, stack, source_prefix, i, args>>
    /\ UNCHANGED <<protocol, ftp_connection, attempts, exit_code, ftp_file_size,
                   optimal_chunk_size, multipart_upload, parts, file_pos, chunk,
                   s3_dest, src_size, chunk_size, mode, prev_result, s3_before,
                   temp_file, remote_file, versions>>

\* The objects of the bucket the folder is created in: a marker, a file
\* below it and a file below a prefix that has no marker.
FolderObjects ==
    {Object(<<"a", "/">>, 0), Object(<<"a", "/", "b">>, 1),
     Object(<<"b", "/", "a">>, 1)}

\* check_and_create_folder is called MaxRuns times in a row for one prefix,
\* with or without dryrun.
InitFolder ==
    /\ mode = "folder" /\ pc = "check_and_create_folder"
    /\ \E prefix \in Strings(MaxLen), dryrun \in {<<>>, <<-1>>} :
          args = Args("copy", <<>>, prefix, [type |-> "glob", text |-> <<>>],
                      FALSE, dryrun)
    /\ store \in SUBSET FolderObjects
    /\ source_prefix = <<>> /\ matched_files = <<>>
    /\ success_count = 0 /\ failed_count = 0
    /\ dest_exists = FALSE /\ reported = <<>> /\ stack = <<>>
    /\ temp_file = <<>> /\ remote_file = <<>> /\ versions = <<>>
    /\ protocol = "sftp" /\ ftp_connection = "None"
    /\ attempts = <<>> /\ exit_code = -1
    /\ src_size = None /\ chunk_size = None
    /\ s3_dest = NoObject /\ s3_before = s3_dest
    /\ LocalsIdle
    /\ result = "none" /\ prev_result = "none" /\ run = 1
    /\ calls = <<>>

SpecFolder == InitFolder /\ [][create_folder]_vars

-----------------------------------------------------------------------------
(* Properties of the chunk planner (SpecPlan)                               *)

\* The plan has been computed.
Planned == pc = "head_object"

\* C1: for every object size and every user chunk size (none included) the
\* planned chunk size is at least 5 MiB and the object has at most 10000 parts
\* of that size.
C1_PlanIsLegal ==
    Planned =>
        /\ WLe(MIN_CHUNK_SIZE, optimal_chunk_size)
        /\ CeilDiv(ftp_file_size, optimal_chunk_size) <= MAX_PARTS

\* p = max(ceil(s / 10000), 100 MiB, 5 MiB), stated without a division: p is
\* no less than each of the three and equal to one of them, where
\* p = ceil(s / 10000) iff 10000 * (p - 1) < s <= 10000 * p.
IsReferenceMax(p, s) ==
    /\ WLe(DEFAULT_CHUNK_SIZE, p) /\ WLe(MIN_CHUNK_SIZE, p)
    /\ WLe(s, WMul(p, MAX_PARTS))
    /\ \/ p = DEFAULT_CHUNK_SIZE
       \/ p = MIN_CHUNK_SIZE
       \/ WLt(WMul(WSub(p, Wide(1)), MAX_PARTS), s)

\* C2: the plan is the user's chunk size when one is supplied and is at least
\* 5 MiB; otherwise (none supplied, or one below 5 MiB) it is
\* max(ceil(objectSize / 10000), 100 MiB, 5 MiB).
C2_PlanFollowsRule ==
    Planned =>
        IF chunk_size # None /\ WLe(MIN_CHUNK_SIZE, chunk_size)
        THEN optimal_chunk_size = chunk_size
        ELSE IsReferenceMax(optimal_chunk_size, ftp_file_size)

\* A chunk size below 5 MiB was supplied for an object so large that the
\* part-count term decides the plan.
C2_Witness ==
    /\ Planned
    /\ chunk_size # None /\ WLt(chunk_size, MIN_CHUNK_SIZE)
    /\ WLt(DEFAULT_CHUNK_SIZE, optimal_chunk_size)

-----------------------------------------------------------------------------
(* Properties of one transfer (Spec)                                        *)

MultipartOps ==
    {"create_multipart_upload", "upload_part", "upload_part_copy",
     "complete_multipart_upload", "abort_multipart_upload"}

PartOps == {"upload_part", "upload_part_copy"}

SourceReads == {"read", "retrbinary"}

\* The indices of the calls of this run with one of the names in ops.
Calls(ops) == {k \in 1..Len(calls) : calls[k].op \in ops}

CallsOk(ops) == {k \in Calls(ops) : calls[k].ok}

CallsFailed(ops) == {k \in Calls(ops) : ~calls[k].ok}

\* upload_to_s3 has handed over to _upload_sftp_to_s3 / _upload_ftp_to_s3: every
\* return before that leaves at most the two size lookups in the call list.
Entered ==
    /\ mode = "upload"
    /\ pc \notin {"upload_to_s3", "plan", "head_object"}
    /\ ~(pc = "done" /\ Len(calls) <= 2)

\* The per-protocol upload function runs, or ran, on a source of at most one chunk.
SingleUnit == Entered /\ WLe(ftp_file_size, optimal_chunk_size)

\* C3 as stated: every upload of a source of at most one chunk issues exactly one
\* direct put and no multipart call, on the SFTP and on the FTP/FTPS path.
C3_ExactlyOnePut ==
    (SingleUnit /\ pc = "done") =>
        /\ Cardinality(Calls({"upload_fileobj"})) = 1
        /\ Calls(MultipartOps) = {}

\* C3, amended: an upload of a source of at most one chunk never issues a
\* multipart call and issues at most one direct put: exactly one once the source
\* has been read, none when opening or reading the source failed; an upload
\* that reports success has issued exactly one put, which succeeded.
C3_SingleUnitOnePut ==
    SingleUnit =>
        /\ Calls(MultipartOps) = {}
        /\ Cardinality(Calls({"upload_fileobj"})) <= 1
        /\ pc = "done" =>
              /\ Cardinality(Calls({"upload_fileobj"}))
                     = (IF CallsOk(SourceReads) # {} THEN 1 ELSE 0)
              /\ result = "True" => Cardinality(CallsOk({"upload_fileobj"})) = 1

\* A file of exactly one chunk was uploaded over FTP/FTPS with one put.
C3_Witness ==
    /\ SingleUnit /\ pc = "done" /\ result = "True"
    /\ protocol # "sftp" /\ ftp_file_size = optimal_chunk_size
    /\ CallsOk({"upload_fileobj"}) # {}

\* The k-th part copied or uploaded so far, in the order of the calls.
RECURSIVE PartCalls(_)
PartCalls(cs) ==
    IF cs = <<>> THEN <<>>
    ELSE IF Head(cs).op \in PartOps /\ Head(cs).ok
         THEN <<Head(cs)>> \o PartCalls(Tail(cs))
         ELSE PartCalls(Tail(cs))

\* C4: the byte ranges of the parts of a multipart session, in part-number
\* order, partition [0, size): part 1 starts at byte 0, each part starts one
\* byte after the previous one ends, no part is empty (so no two overlap), and
\* when the session is completed the last part ends at byte size - 1.
C4_PartsPartitionObject ==
    LET ps == PartCalls(calls)
    IN  /\ \A k \in 1..Len(ps) :
              /\ ps[k].n = k
              /\ ps[k].first = (IF k = 1 THEN Wide(0) ELSE ps[k - 1].stop)
              /\ WLt(ps[k].first, ps[k].stop)
              /\ WLe(ps[k].stop, ftp_file_size)
        /\ Calls({"complete_multipart_upload"}) # {} =>
              /\ ps # <<>> => ps[Len(ps)].stop = ftp_file_size
              /\ ps = <<>> => ftp_file_size = Wide(0)

\* A four-part FTP upload was completed.
C4_Witness ==
    /\ mode = "upload" /\ protocol = "ftp"
    /\ CallsOk({"complete_multipart_upload"}) # {}
    /\ Len(PartCalls(calls)) = 4
    /\ s3_dest.size = ftp_file_size

\* C5: whenever complete_multipart_upload is invoked its part list is 1..N in
\* ascending order, N the number of chunks of the object, and each of the N
\* parts was uploaded successfully in this session before the call.
C5_CompleteGetsAllParts ==
    \A j \in Calls({"complete_multipart_upload"}) :
        LET N == CeilDiv(ftp_file_size, optimal_chunk_size)
        IN  /\ Len(calls[j].ps) = N
            /\ \A k \in 1..N :
                  /\ calls[j].ps[k] = k
                  /\ \E m \in CallsOk(PartOps) :
                        /\ m < j /\ calls[m].n = k
                        /\ \E c \in CallsOk({"create_multipart_upload"}) : c < m

\* complete_multipart_upload was invoked for an SFTP upload whose last chunk is
\* shorter than the others.
C5_Witness ==
    /\ protocol = "sftp" /\ mode = "upload"
    /\ Calls({"complete_multipart_upload"}) # {}
    /\ Len(parts) = MaxParts + 1
    /\ ftp_file_size # WMul(optimal_chunk_size, Len(parts))

\* The steps after the creation of a session whose failure C6 is about.
SessionSteps ==
    SourceReads \cup PartOps \cup {"complete_multipart_upload", "close"}

\* C6: when a multipart session was created and a later step failed (a read of
\* the source, the upload or copy of a part, the completion), the function has
\* invoked abort_multipart_upload after that failure when it returns, and it
\* returns failure.
C6_FailureAborts ==
    pc = "done" =>
        \A c \in CallsOk({"create_multipart_upload"}) :
            \A f \in CallsFailed(SessionSteps) :
                c < f =>
                    /\ \E a \in Calls({"abort_multipart_upload"}) : f < a
                    /\ result = "False"

\* The completion of an SFTP upload session failed and the session was aborted.
C6_Witness ==
    /\ pc = "done" /\ protocol = "sftp" /\ mode = "upload"
    /\ CallsFailed({"complete_multipart_upload"}) # {}
    /\ Calls({"abort_multipart_upload"}) # {}

\* C7: if the upload of part k of N fails, abort is invoked exactly once, no
\* part with a greater number is uploaded, complete is never invoked, and the
\* upload makes no object visible at the destination key.
C7_FailedPartEndsUpload ==
    \A f \in CallsFailed({"upload_part"}) :
        /\ \A k \in Calls({"upload_part"}) : calls[k].n <= calls[f].n /\ k <= f
        /\ Calls({"complete_multipart_upload"}) = {}
        /\ s3_dest = s3_before
        /\ Cardinality(Calls({"abort_multipart_upload"})) <= 1
        /\ pc = "done" =>
              /\ Cardinality(Calls({"abort_multipart_upload"})) = 1
              /\ result = "False"

\* Part 2 of 4 of an FTP upload failed and the function has returned.
C7_Witness ==
    /\ pc = "done" /\ mode = "upload" /\ protocol = "ftp"
    /\ \E f \in CallsFailed({"upload_part"}) : calls[f].n = 2
    /\ CeilDiv(ftp_file_size, optimal_chunk_size) = 4

TransferOps == {"open", "upload_fileobj"} \cup SourceReads \cup MultipartOps

\* The destination key held an object of the size of the source when this
\* upload_to_s3 started.
SameSizeAtStart ==
    /\ mode = "upload" /\ src_size # None
    /\ s3_before.exists /\ s3_before.size = src_size

\* C8 as stated: an upload to a key that already holds an object of the size of
\* the source (the size get_file_size_ftp reported) returns success without
\* reading the source and without any put or multipart call.
C8_SameSizeSkips ==
    (SameSizeAtStart /\ ftp_file_size = src_size /\ pc = "done") =>
        result = "True" /\ Calls(TransferOps) = {}

\* Both size lookups of this run have succeeded.
LookupsOk ==
    /\ Len(calls) >= 2
    /\ calls[1].op = "stat" /\ calls[1].ok
    /\ calls[2].op = "head_object" /\ calls[2].ok

\* C8, amended: when the destination key already holds an object of the size
\* of the source and the head_object lookup of the destination succeeds (the
\* source's size having been obtained), upload_to_s3 returns success without
\* reading the source and without any put or multipart call; a repeated upload
\* of an unchanged file finds such an object and, the lookup succeeding,
\* transfers nothing.
C8_SameSizeSkipsWhenSeen ==
    /\ (SameSizeAtStart /\ LookupsOk) =>
           /\ pc = "done" /\ result = "True"
           /\ Calls(TransferOps) = {}
    /\ (mode = "upload" /\ run > 1 /\ prev_result = "True") => SameSizeAtStart

\* The first run uploaded the file, the second run skipped it.
C8_Witness ==
    /\ mode = "upload" /\ run = 2 /\ prev_result = "True" /\ s3_dest.by = 1
    /\ pc = "done" /\ result = "True" /\ Calls(TransferOps) = {}

-----------------------------------------------------------------------------
(* Properties of an upload followed by a download (SpecRound)               *)

\* A byte string with its neighbouring pieces joined and its empty pieces left
\* out: two byte strings are the same bytes when these forms are equal.
RECURSIVE Joined(_)
Joined(body) ==
    IF body = <<>> THEN <<>>
    ELSE IF Head(body).first = Head(body).stop THEN Joined(Tail(body))
    ELSE IF Len(body) = 1 THEN body
    ELSE LET a == body[1]
             b == body[2]
         IN  IF b.first = b.stop THEN Joined(<<a>> \o SubSeq(body, 3, Len(body)))
             ELSE IF a.origin = b.origin /\ a.stop = b.first
             THEN Joined(<<Piece(a.origin, a.first, b.stop)>>
                            \o SubSeq(body, 3, Len(body)))
             ELSE <<a>> \o Joined(Tail(body))

\* The bytes of the source file.
Original == Joined(<<Piece("source", Wide(0), src_size)>>)

\* The upload has stored the object at the key and returned True, and the
\* download of that object has returned True.
RoundTrip ==
    /\ mode = "download" /\ pc = "downloaded"
    /\ prev_result = "True" /\ result = "True"
    /\ s3_dest.exists /\ s3_dest.by = run

-----------------------------------------------------------------------------
(* Properties of the units of the transfer tool (SpecUnits)                 *)

\* The calls that write to the object store in an upload.
StoreWrites == {"upload_fileobj"} \cup MultipartOps

\* C32: an upload_to_s3 whose path is missing on the remote side returns
\* failure having made no call that writes to the object store; a
\* download_from_s3 whose key cannot be found returns failure at once, with no
\* directory prepared and nothing written on the remote side; and a bulk loop
\* goes on after a unit that failed: every entry it does not skip is attempted.
C32_AbsentSourceFailsUntouched ==
    /\ (mode \in {"upload", "download"} /\ src_size = None /\ pc # "upload_to_s3")
          => /\ Calls(StoreWrites) = {} /\ s3_dest = s3_before
             /\ CallsFailed({"stat"}) # {}
             /\ IF mode = "upload" THEN pc = "done" /\ result = "False"
                ELSE prev_result = "False"
    /\ \A k \in CallsFailed({"get_file_size_s3"}) :
          /\ k = Len(calls) /\ mode = "download"
          /\ pc = "downloaded" /\ result = "False"
          /\ Calls({"_ensure_ftp_directory"}) = {}
          /\ remote_file = <<>> /\ temp_file = <<>>
    /\ (mode = "main" /\ args.bulk /\ pc \in {"finally", "exited"}) =>
          \A n \in DOMAIN matched_files :
              ~matched_files[n].is_dir =>
                  \E k \in Calls({UnitOp(args)}) : calls[k].n = n

\* The path was missing on the remote side and the key was missing in the
\* bucket: the upload and then the download have failed after one lookup each.
C32_Witness ==
    /\ mode = "download" /\ pc = "downloaded" /\ src_size = None
    /\ ~s3_dest.exists /\ prev_result = "False" /\ result = "False"
    /\ [k \in 1..Len(calls) |-> calls[k].op] = <<"stat", "get_file_size_s3">>

-----------------------------------------------------------------------------
(* Properties of main() and connect_ftp (SpecMain)                          *)

AutoOrder == <<"sftp", "ftps", "ftp">>

AllFailed == \A k \in 1..Len(attempts) : ~attempts[k].ok

MainOps ==
    {"upload_to_s3", "bulk_upload_to_s3", "download_from_s3", "bulk_download_from_s3",
     "list_files", "list_s3_files"}

\* connect_ftp has returned or has ended the run.
AfterConnect == pc \in {"transfer", "bulk_loop", "finally", "exited"}

\* C9: in auto mode the protocols are attempted in the order SFTP, FTPS, FTP;
\* one is attempted only if every earlier one failed, none after the first
\* success, and on return the recorded protocol is the one that connected.
C9_AutoOrder ==
    args.protocol = "auto" =>
        /\ Len(attempts) <= Len(AutoOrder)
        /\ \A k \in 1..Len(attempts) :
              /\ attempts[k].p = AutoOrder[k]
              /\ k < Len(attempts) => ~attempts[k].ok
        /\ IF attempts # <<>> /\ attempts[Len(attempts)].ok
           THEN /\ AfterConnect
                /\ protocol = attempts[Len(attempts)].p
                /\ ftp_connection = protocol
           ELSE protocol = "auto" /\ ftp_connection = "None" /\ pc # "transfer"

\* SFTP failed, FTPS connected, and connect_ftp has returned.
C9_Witness ==
    /\ args.protocol = "auto" /\ pc = "transfer"
    /\ Len(attempts) = 2 /\ protocol = "ftps"

\* C10: in auto mode a failed attempt does not end the run unless all three
\* have failed, and then the process ends with exit code 1; in explicit mode
\* only the named protocol is attempted, exactly once, and its failure ends the
\* process with exit code 1 and no transfer operation performed.
C10_ConnectFailureIsFatal ==
    /\ args.protocol = "auto" =>
          /\ (attempts # <<>> /\ AllFailed /\ Len(attempts) < 3) =>
                 exit_code = -1 /\ pc \in {"auto_ftps", "auto_ftp"}
          /\ (Len(attempts) = 3 /\ AllFailed) =>
                 /\ exit_code = 1 /\ pc \in {"finally", "exited"}
                 /\ Calls(MainOps) = {}
    /\ args.protocol # "auto" =>
          /\ Len(attempts) <= 1
          /\ \A k \in 1..Len(attempts) : attempts[k].p = args.protocol
          /\ (AfterConnect /\ CallsOk({"connect_s3"}) # {}) => Len(attempts) = 1
          /\ (attempts # <<>> /\ AllFailed) =>
                 /\ exit_code = 1 /\ pc \in {"finally", "exited"}
                 /\ Calls(MainOps) = {}
    /\ (pc = "exited" /\ Calls(MainOps) # {}) =>
          attempts # <<>> /\ attempts[Len(attempts)].ok

\* All three attempts of auto mode failed and the process has ended.
C10_Witness ==
    /\ args.protocol = "auto" /\ pc = "exited"
    /\ Len(attempts) = 3 /\ AllFailed /\ exit_code = 1

\* C11: disconnect never propagates an error.  Whatever close() or quit()
\* does, the call returns normally (the failure is only logged) and the exit
\* status stays the one main() had reached; when no connection was ever
\* established it calls nothing.
C11_DisconnectReturns ==
    /\ \A k \in Calls({"disconnect"}) : calls[k].ok
    /\ pc = "exited" =>
          /\ Cardinality(Calls({"disconnect"})) = 1
          /\ exit_code = (IF CallsFailed({"connect_s3"}) # {}
                              \/ (attempts # <<>> /\ AllFailed)
                          THEN 1 ELSE 0)
          /\ ftp_connection = "None" =>
                Calls({"close", "transport.close", "quit"}) = {}
          /\ ftp_connection # "None" =>
                Cardinality(Calls({"close", "quit"})) = 1

\* The connection was gone when the process disconnected: quit() failed, and
\* the process still ended with status 0.
C11_Witness ==
    /\ pc = "exited" /\ CallsFailed({"quit"}) # {}
    /\ CallsOk({"disconnect"}) # {} /\ exit_code = 0

-----------------------------------------------------------------------------
(* Properties of the placement (SpecPlace)                                  *)

\* The folder names of a path: what lies between its slashes, in order.
RECURSIVE Components(_)
Components(s) ==
    IF s = <<>> THEN <<>>
    ELSE IF Head(s) = "/" THEN Components(Tail(s))
    ELSE LET n == CHOOSE k \in 1..Len(s) :
                       /\ \A j \in 1..k : s[j] # "/"
                       /\ (k = Len(s) \/ s[k + 1] = "/")
         IN  <<SubSeq(s, 1, n)>> \o Components(SubSeq(s, n + 1, Len(s)))

\* The names cs joined, each followed by a slash.
RECURSIVE Folder(_)
Folder(cs) == IF cs = <<>> THEN <<>> ELSE (Head(cs) \o <<"/">>) \o Folder(Tail(cs))

\* A prefix as a folder path: its names, each followed by a slash; the root
\* is "/" (the tool's convention for an empty prefix).
AsFolder(prefix) ==
    IF Components(prefix) = <<>> THEN <<"/">> ELSE Folder(Components(prefix))

\* The leaf name of a prefix: its last folder name, empty when it has none.
Leaf(prefix) ==
    LET cs == Components(prefix) IN IF cs = <<>> THEN <<>> ELSE cs[Len(cs)]

\* The key `key` lies under the source prefix `prefix`; what follows it.
Under(key, prefix) == startswith(key, AsFolder(prefix))

Relative(key, prefix) == SubSeq(key, Len(AsFolder(prefix)) + 1, Len(key))

\* The placement has been computed.
IsPlaced == mode = "place" /\ pc = "done"

\* C12: for every source key under the normalized source prefix, with
\* relativePath the key minus that prefix: when merge is not requested and the
\* leaf names of source and destination differ the destination key is
\* destPrefix/basename(sourcePrefix)/relativePath, and when merge is requested
\* it is destPrefix/relativePath.
C12_PlacementFollowsPolicy ==
    IsPlaced =>
        LET p == reported[1]
            src == args.source_prefix
            dst == args.dest_prefix
        IN  Under(p.key, src) =>
               /\ args.merge => p.dest = AsFolder(dst) \o Relative(p.key, src)
               /\ (~args.merge /\ Leaf(src) # Leaf(dst)) =>
                     p.dest = ((AsFolder(dst) \o Leaf(src)) \o <<"/">>)
                                  \o Relative(p.key, src)

\* Source prefix a/b, destination prefix b/a, key a/b/a/b/a, merge not
\* requested: the key is placed at b/a/b/a/b/a.
C12_Witness ==
    /\ IsPlaced /\ ~args.merge
    /\ args.source_prefix = <<"a", "/", "b">> /\ args.dest_prefix = <<"b", "/", "a">>
    /\ reported[1].key = <<"a", "/", "b", "/", "a", "/", "b", "/", "a">>
    /\ reported[1].dest = <<"b", "/", "a", "/", "b", "/", "a", "/", "b", "/", "a">>

\* C13: when the source prefix and the destination prefix have the same leaf
\* name, the destination key is destPrefix/relativePath whether or not merge
\* was requested: its folder names are those of the destination prefix
\* followed by those of the relative path, so the placement adds no second
\* copy of the leaf name.
C13_SameLeafMerges ==
    IsPlaced =>
        LET p == reported[1]
            src == args.source_prefix
            dst == args.dest_prefix
        IN  (Under(p.key, src) /\ Leaf(src) # <<>> /\ Leaf(src) = Leaf(dst)) =>
               /\ p.dest = AsFolder(dst) \o Relative(p.key, src)
               /\ Components(p.dest)
                      = Components(dst) \o Components(Relative(p.key, src))

\* Merge was not requested, source prefix a/b and destination prefix b end in
\* the same name, and the file a/b/a went to b/a.
C13_Witness ==
    /\ IsPlaced /\ ~args.merge
    /\ args.source_prefix = <<"a", "/", "b">> /\ args.dest_prefix = <<"b">>
    /\ reported[1].key = <<"a", "/", "b", "/", "a">>
    /\ reported[1].dest = <<"b", "/", "a">>

\* The name after the last "/" of a key (the key itself when it has none).
LastName(key) ==
    LET slashes == {k \in 1..Len(key) : key[k] = "/"}
        last == IF slashes = {} THEN 0
                ELSE CHOOSE k \in slashes : \A j \in slashes : j <= k
    IN  SubSeq(key, last + 1, Len(key))

\* C31: a source key that does not start with the normalized source prefix is
\* placed at destPrefix/basename(sourceKey), whatever the merge flag; the bulk
\* download gives a key that does not start with its prefix the remote path
\* ftp_dir/basename(key) (the bare name when ftp_dir is empty).
C31_OutsideKeysGoByBasename ==
    (mode = "place" /\ pc \in {"done", "ftp_path"}) =>
        LET p == reported[1]
            src == args.source_prefix
            dst == args.dest_prefix
        IN  /\ (pc = "done" /\ ~Under(p.key, src)) =>
                  p.dest = AsFolder(dst) \o LastName(p.key)
            /\ (pc = "ftp_path" /\ ~startswith(p.key, src)) =>
                  p.dest = (IF dst = <<>> THEN <<>> ELSE dst \o <<"/">>)
                               \o LastName(p.key)

\* Source prefix a, destination prefix a/b, merge not requested: the key b/a,
\* which is not under a/, is placed at a/b/a.
C31_Witness ==
    /\ IsPlaced /\ ~args.merge
    /\ args.source_prefix = <<"a">> /\ args.dest_prefix = <<"a", "/", "b">>
    /\ reported[1].key = <<"b", "/", "a">>
    /\ reported[1].dest = <<"a", "/", "b", "/", "a">>

-----------------------------------------------------------------------------
(* Properties of the copy/move/delete tool (SpecFiles)                      *)

MutatingOps == {"put_object", "copy_file", "delete_file"}

UnitOps == {"copy_file", "delete_file"}

\* The folders above a key: its prefixes that end in "/".
Ancestors(key) == {SubSeq(key, 1, n) : n \in {k \in 1..Len(key) : key[k] = "/"}}

\* The folders between the destination prefix and a key placed under it.
Intermediate(key) ==
    {f \in Ancestors(key) : Len(f) > Len(AsFolder(args.dest_prefix))}

\* C14: in a folder-level move (no pattern) onto a destination prefix that
\* does not exist before the operation, every file goes to
\* destPrefix/relativePath, without a sub-folder named after the source.
C14_MoveOntoAbsentDestinationRenames ==
    (/\ mode = "files" /\ args.operation = "move" /\ args.pattern = <<>>
     /\ ~dest_exists /\ Failed(calls) = {}) =>
        \A k \in Calls({"copy_file"}) :
            calls[k].prefix = args.source_prefix =>
                calls[k].dest = AsFolder(args.dest_prefix)
                                    \o Relative(calls[k].key, args.source_prefix)

\* C15: when a file is written to a destination key, every folder between the
\* destination prefix and the file, each ancestor and not only the parent, is
\* there as a placeholder object (no call of the run having failed).
C15_AncestorsExistBeforeWrite ==
    (/\ mode = "files" /\ calls # <<>> /\ Failed(calls) = {}
     /\ calls[Len(calls)].op = "copy_file") =>
        \A f \in Intermediate(calls[Len(calls)].dest) : f \in Keys(store)

\* C16: with dry-run enabled no operation makes a mutating call (no folder
\* marker is put, nothing is copied or deleted) or asks for confirmation, and
\* no step changes the bucket.
C16_DryRunMutatesNothing ==
    /\ [](mode = "files" /\ Dryrun => Calls(MutatingOps \cup {"input"}) = {})
    /\ [][mode = "files" /\ Dryrun => store' = store]_vars

\* The dry run of a move with a pattern onto a destination that does not exist
\* has ended as a success with a file matched: a real run would have asked for
\* confirmation and put the marker of the destination.
C16_Witness ==
    /\ mode = "files" /\ Dryrun /\ pc = "exited" /\ exit_code = 0
    /\ args.operation = "move" /\ args.pattern # <<>> /\ matched_files # <<>>
    /\ ~dest_exists /\ CallsOk({"head_bucket"}) # {}
    /\ Keys(store) \cap {AsFolder(args.dest_prefix)} = {}

\* C17: the destination key a dry run has reported for a file is the key to
\* which the run without --dryrun, with the same arguments on the same bucket,
\* copies that file.
C17_DryRunReportsRealKeys ==
    (mode = "files" /\ run > 1) =>
        \A k \in Calls({"copy_file"}) : \A r \in 1..Len(reported) :
            (reported[r].key = calls[k].key /\ reported[r].prefix = calls[k].prefix)
                => reported[r].dest = calls[k].dest

\* After its dry run a copy that keeps the structure has copied a file to the
\* key the dry run had reported, below the sub-folder named after the source.
C17_Witness ==
    /\ mode = "files" /\ run > 1 /\ ~args.merge
    /\ \E k \in CallsOk({"copy_file"}) : \E r \in 1..Len(reported) :
          /\ reported[r].key = calls[k].key /\ reported[r].dest = calls[k].dest
          /\ calls[k].dest = <<"x", "/", "a", "/", "f">>

\* The run is a delete or a move with a pattern and without --dryrun.
NeedsConfirmation ==
    /\ mode = "files" /\ ~Dryrun
    /\ args.operation \in {"delete", "move"} /\ args.pattern # <<>>

\* C18: a delete or move with a pattern and no dry-run makes no mutating call
\* before the user has confirmed; when the user declines, process_files returns
\* failure and no mutating call is made at all.
C18_ConfirmationGate ==
    NeedsConfirmation =>
        /\ \A m \in Calls(MutatingOps) : \E c \in CallsOk({"input"}) : c < m
        /\ CallsFailed({"input"}) # {} =>
              /\ Calls(MutatingOps) = {}
              /\ pc \in {"return", "main_exit", "exited"} /\ result = "False"
              /\ pc = "exited" => exit_code = 1

\* The user declined a move of the file the pattern matched.
C18_Witness ==
    /\ NeedsConfirmation /\ args.operation = "move" /\ pc = "exited"
    /\ matched_files # <<>> /\ CallsFailed({"input"}) # {} /\ exit_code = 1

\* The attempts made on the file `key`: copy_file for a copy or move,
\* delete_file for a delete.
Attempts(key) ==
    {k \in Calls({IF args.operation = "delete" THEN "delete_file" ELSE "copy_file"}) :
        calls[k].key = key}

\* C19: once the loop over the matched files has started, every matched file
\* is attempted exactly once when the run ends, whatever happened to the files
\* before it.
C19_EveryUnitAttemptedOnce ==
    (/\ mode = "files" /\ pc = "exited" /\ ~Dryrun /\ i >= 1
     /\ Calls(UnitOps) # {}) =>
        \A j \in 1..Len(matched_files) :
            Cardinality(Attempts(matched_files[j].Key)) = 1

\* C20: a run in which a unit failed ends with exit code 1: a transfer or a
\* bulk transfer of the S3-FTP tool, and a run without --dryrun of the
\* copy/move/delete tool (where a declined confirmation does too).
C20_FailureExitsWithOne ==
    pc = "exited" =>
        /\ (mode = "main" /\ CallsFailed({"upload_to_s3", "download_from_s3"}) # {})
               => exit_code = 1
        /\ (mode = "files" /\ ~Dryrun
                /\ (CallsFailed(UnitOps) # {} \/ CallsFailed({"input"}) # {}))
               => exit_code = 1

\* Nothing but the marker of the source prefix itself is under the prefix.
NothingUnder ==
    LET norm_prefix == normalize_prefix(source_prefix)
    IN  \A o \in store : startswith(o.Key, norm_prefix) => o.Key = norm_prefix

\* process_files has returned to main().
Returned == stack = <<>> /\ pc \in {"return", "main_exit", "exited"}

\* C21: a copy, move or delete whose pattern matches no file ends as a failure
\* without any mutating call (no marker of the destination is put) and without
\* asking for confirmation; without a pattern, when neither a file nor a
\* sub-folder is under the source prefix, process_files returns success with
\* an empty result and changes nothing.
C21_NoMatch ==
    /\ [](/\ mode = "files" /\ args.operation # "list" /\ args.pattern # <<>>
          /\ Returned /\ matched_files = <<>>
          => /\ result = "False"
             /\ Calls(MutatingOps \cup {"input"}) = {}
             /\ pc = "exited" => exit_code = 1)
    /\ [][pc = "no_files" /\ args.pattern = <<>> /\ NothingUnder
          => /\ pc' = "return" /\ result' = "True" /\ matched_files' = <<>>
             /\ store' = store
             /\ \A k \in (Len(calls) + 1)..Len(calls') :
                    calls'[k].op \notin MutatingOps]_vars

\* A move whose pattern filtered out the one file under the source prefix has
\* ended with exit code 1, the listing having succeeded.
C21_Witness ==
    /\ mode = "files" /\ pc = "exited" /\ exit_code = 1
    /\ args.operation = "move" /\ args.pattern # <<>> /\ args.dest_prefix # <<>>
    /\ ~Dryrun /\ matched_files = <<>> /\ Failed(calls) = {}
    /\ <<"a", "/", "c", "/", "g">> \in Keys(store)

\* The markers of the folders below the source prefix.
SubFolders ==
    {k \in Keys(store) : /\ Under(k, args.source_prefix)
                         /\ endswith(k, <<"/">>)
                         /\ k # AsFolder(args.source_prefix)}

\* The keys at which the destination can hold the folder `f` of the source:
\* below the destination prefix, or below the sub-folder named after the source.
Replicas(f) ==
    LET rel == Relative(f, args.source_prefix)
        dst == AsFolder(args.dest_prefix)
    IN  {dst \o rel, ((dst \o Leaf(args.source_prefix)) \o <<"/">>) \o rel}

\* C22: a copy or move without pattern and without --dryrun that finds no
\* file under the source prefix, but sub-folders, has on return put at the
\* destination a folder placeholder for each sub-folder of the source.
C22_EmptyFoldersReplicated ==
    (/\ mode = "files" /\ IsCopyOrMove /\ ~Dryrun /\ args.pattern = <<>>
     /\ args.dest_prefix # <<>> /\ Returned
     /\ Failed(calls) = {} /\ Calls(UnitOps) = {}) =>
        \A f \in SubFolders : Replicas(f) \cap Keys(store) # {}

\* The listing of the source prefix is the one call made so far, and it
\* succeeded: matched_files is what the walker found in the bucket.
Walked ==
    /\ mode = "files" /\ Len(calls) = 1
    /\ calls[1].op = "list_objects_v2" /\ calls[1].ok

\* The files of the subtree of the source prefix, with their paths relative to
\* it: the objects that are not folder placeholders.
SubtreeFiles ==
    {o \in store : /\ Under(o.Key, args.source_prefix)
                   /\ ~(endswith(o.Key, <<"/">>) /\ o.Size = 0)}

\* The files that are direct children of the source prefix.
DirectFiles ==
    {o \in SubtreeFiles : Len(Components(Relative(o.Key, args.source_prefix))) = 1}

Matched == {matched_files[k].Key : k \in 1..Len(matched_files)}

\* C23: for list, copy, move and delete, a pattern with a recursive indicator
\* matches the files of the whole subtree whose path relative to the source
\* prefix fits the pattern; a pattern without one matches the direct children
\* whose leaf name fits it; without a pattern every file in the scope of the
\* walk (the subtree for copy, move and delete) is matched.
C23_PatternScope ==
    Walked =>
        IF args.pattern = <<>>
        THEN /\ Keys(DirectFiles) \subseteq Matched
             /\ Matched \subseteq Keys(SubtreeFiles)
             /\ args.operation # "list" => Matched = Keys(SubtreeFiles)
        ELSE IF is_recursive_pattern(args.pattern, args.pattern_type)
        THEN Matched = {o.Key : o \in {q \in SubtreeFiles :
                            fnmatch(Relative(q.Key, args.source_prefix), args.pattern)}}
        ELSE Matched = {o.Key : o \in {q \in DirectFiles :
                            match_pattern(Leaf(q.Key), args.pattern,
                                          args.pattern_type, TRUE)}}

\* The calls of the validation of the destination (unit 0) that failed:
\* head_bucket (the bucket is not accessible) or put_object (the marker could
\* not be created).
FailedValidation(cs) ==
    {k \in 1..Len(cs) : /\ cs[k].op \in {"head_bucket", "put_object"}
                         /\ cs[k].n = 0 /\ ~cs[k].ok}

UnitOk(n) ==
    LET done(op) == \E k \in CallsOk({op}) : calls[k].key = matched_files[n].Key
    IN  CASE args.operation = "copy" -> done("copy_file")
          [] args.operation = "delete" -> done("delete_file")
          [] OTHER -> done("copy_file") /\ done("delete_file")

\* C27: when process_files reaches its report, the run is not a dry run,
\* success_count counts the files whose unit succeeded and failed_count those
\* whose unit failed, so that together they count every matched file once;
\* the status it returns is success exactly when failed_count is 0.
C27_CountersPartitionTheBatch ==
    /\ [](mode = "files" /\ pc = "report"
            => /\ ~Dryrun
               /\ success_count = Cardinality({n \in DOMAIN matched_files : UnitOk(n)})
               /\ failed_count = Cardinality({n \in DOMAIN matched_files : ~UnitOk(n)})
               /\ success_count + failed_count = Len(matched_files))
    /\ [][mode = "files" /\ pc = "report"
            => /\ pc' = "return" /\ result' \in {"True", "False"}
               /\ result' = "True" <=> failed_count = 0]_vars

\* A batch of two files has been reported with one unit succeeded and one
\* failed, and the run has ended with exit code 1.
C27_Witness ==
    /\ mode = "files" /\ pc = "exited" /\ result = "False" /\ exit_code = 1
    /\ ~Dryrun /\ Len(matched_files) = 2
    /\ success_count = 1 /\ failed_count = 1
    /\ \E n \in DOMAIN matched_files : UnitOk(n)

\* A listing holds neither the key of the prefix it scanned nor a zero-length
\* key that ends in "/".
NoPlaceholder(listing, prefix) ==
    \A n \in DOMAIN listing :
        /\ listing[n].Key # normalize_prefix(prefix)
        /\ ~(listing[n].Size = 0 /\ endswith(listing[n].Key, <<"/">>))

\* C29: on every bucket the tool comes across, the listing of the direct
\* children and the recursive listing of the source prefix hold neither the
\* prefix's own key nor a zero-length key ending in "/", and so does
\* matched_files; no unit (copy_file, delete_file) is given the key of a
\* folder marker.
C29_ListingsHoldNoPlaceholder ==
    mode = "files" =>
        /\ NoPlaceholder(list_direct_files(source_prefix, args.pattern,
                                           args.pattern_type), source_prefix)
        /\ NoPlaceholder(list_recursive(source_prefix, args.pattern,
                                        args.pattern_type), source_prefix)
        /\ NoPlaceholder(matched_files, source_prefix)
        /\ \A k \in Calls(UnitOps) : ~endswith(calls[k].key, <<"/">>)

\* A delete without pattern has deleted the two files under the prefix, whose
\* marker and whose sub-folder's marker are still in the bucket.
C29_Witness ==
    /\ mode = "files" /\ pc = "exited" /\ result = "True"
    /\ args.operation = "delete" /\ args.pattern = <<>>
    /\ Len(matched_files) = 2
    /\ Cardinality(CallsOk({"delete_file"})) = 2
    /\ Keys(store) = {<<"a", "/">>, <<"a", "/", "c", "/">>}

-----------------------------------------------------------------------------
(* Properties of check_and_create_folder (SpecFolder)                       *)

\* The bucket holds an object under the normalized prefix.
PrefixExists ==
    \E o \in store : startswith(o.Key, normalize_prefix(args.dest_prefix))

\* The calls the step makes.
NewCalls == {k \in 1..Len(calls') : k > Len(calls)}

NewCall(op, ok) == \E k \in NewCalls : calls'[k].op = op /\ calls'[k].ok = ok

\* The step writes a placeholder.
Wrote == NewCall("put_object", TRUE)

\* The key is a folder path that ends in exactly one separator.
EndsInOneSeparator(key) ==
    /\ key # <<>> /\ key[Len(key)] = "/"
    /\ Len(key) > 1 => key[Len(key) - 1] # "/"

\* What every call of check_and_create_folder does: the bucket is looked at
\* first, only a placeholder written changes the bucket, a call that follows
\* one that has written the placeholder changes nothing, and the key written
\* is the normalized prefix, which ends in exactly one separator.
CheckedFirstAndOnce ==
    /\ NewCall("head_bucket", FALSE) => ~Wrote /\ store' = store
    /\ store' # store => Wrote
    /\ CallsOk({"put_object"}) # {} => store' = store
    /\ \A k \in NewCalls :
           /\ calls'[k].op = "head_bucket" <=> k = Len(calls) + 1
           /\ calls'[k].op = "put_object" =>
                 /\ calls'[k].key = normalize_prefix(args.dest_prefix)
                 /\ EndsInOneSeparator(calls'[k].key)
                 /\ calls'[k].ok => store' = WithObject(store, calls'[k].key, 0)

-----------------------------------------------------------------------------
(* Properties of a failing abort (Spec)                                     *)

\* C28: an abort_multipart_upload that fails is the last call of the transfer
\* function, it follows the failure that caused it, and the function returns
\* that failure (False; no exception leaves it), in an upload and in a copy.
C28_FailedAbortKeepsTheFailure ==
    \A a \in CallsFailed({"abort_multipart_upload"}) :
        /\ a = Len(calls)
        /\ \E f \in CallsFailed(SessionSteps) : f < a
        /\ pc = "done" /\ result = "False"

\* The copy of a part failed in a multipart copy, and the abort failed too.
C28_Witness ==
    /\ mode = "copy" /\ pc = "done" /\ result = "False"
    /\ CallsFailed({"upload_part_copy"}) # {}
    /\ CallsFailed({"abort_multipart_upload"}) # {}

-----------------------------------------------------------------------------
(* Properties of a completed session (Spec)                                 *)

\* C34: abort_multipart_upload is never invoked after the
\* complete_multipart_upload of the session has succeeded, and a transfer whose
\* completion has succeeded does not return failure.
C34_NoAbortAfterComplete ==
    \A c \in CallsOk({"complete_multipart_upload"}) :
        /\ \A a \in Calls({"abort_multipart_upload"}) : a < c
        /\ pc = "done" => result = "True"

-----------------------------------------------------------------------------
(* Properties of copy_file (SpecCopy)                                       *)

\* The number of bytes a call carries.
Carried(k) == WSub(calls[k].stop, calls[k].first)

Writes == CallsOk({"copy_object", "complete_multipart_upload"})

\* The destination key holds the bytes of the current version of the source:
\* the last write was a copy of it.
DestHoldsCurrent ==
    Writes # {} /\ calls[CHOOSE k \in Writes : \A j \in Writes : j <= k].n = 0

\* The source key still shows its current version: no version was removed.
SourceHoldsCurrent == \A k \in Calls({"delete_file"}) : calls[k].n = 0

\* C33: in a move the source is deleted only after copy_file has returned
\* success for that file (no delete is issued when the copy failed), so that
\* at every moment the content of the file is at the source key or at the
\* destination key.
C33_MoveKeepsTheContent ==
    mode = "copy" =>
        /\ \A k \in Calls({"delete_file"}) :
               /\ args.operation = "move" /\ prev_result = "True"
               /\ k = Len(calls) /\ Writes # {}
        /\ SourceHoldsCurrent \/ DestHoldsCurrent

\* The version of the source a write has copied: 1 is the current version.
Written(k) == IF calls[k].n = 0 THEN 1 ELSE calls[k].n

\* C35: when copy_file has copied all the versions of a key that has several,
\* the object at the destination key holds the content of the source's current
\* version, and the versions were written oldest first, so that the
\* destination's versions come in the order of the source's.
C35_VersionOrderPreserved ==
    (/\ mode = "copy" /\ pc = "copied" /\ result = "True"
     /\ ~args.current_version_only /\ Len(versions) >= 2) =>
        /\ DestHoldsCurrent
        /\ \A j, k \in Writes : j < k => Written(j) > Written(k)

-----------------------------------------------------------------------------
(* Properties of the part size of a multipart copy (SpecParts)              *)

\* len(range(0, size, part_size)): the parts the copy loop asks for
PartCount == CeilDiv(ftp_file_size, optimal_chunk_size)

PartSizeChosen == mode = "copy" /\ pc = "mpc_part"

\* C36: in multipart copy mode, for every object size above 4 GiB up to
\* 5 TiB, the chosen part size yields at most 10000 parts, is at least 5 MiB
\* (so that every part but the last is) and is at most 4 GiB - 1 bytes.
C36_PartSizeWithinLimits ==
    PartSizeChosen =>
        /\ PartCount <= MAX_PARTS
        /\ WLe(MIN_CHUNK_SIZE, optimal_chunk_size)
        /\ WLt(optimal_chunk_size, MAX_DIRECT_COPY_SIZE)

-----------------------------------------------------------------------------
(* Properties of a delete or move of a whole prefix (SpecFiles)             *)

\* The keys of the bucket that start with the source prefix of the run.
UnderSource ==
    {o.Key : o \in {x \in store :
                       startswith(x.Key, normalize_prefix(args.source_prefix))}}

\* C37: after a successful delete or move without a pattern and not as a dry
\* run, no object whose key starts with the source prefix remains in the
\* bucket, folder placeholder objects included.
C37_NothingRemainsUnderSource ==
    (/\ mode = "files" /\ pc = "exited" /\ result = "True" /\ ~Dryrun
     /\ args.operation \in {"delete", "move"} /\ args.pattern = <<>>)
        => UnderSource = {}

-----------------------------------------------------------------------------
(* Properties of the recursion of process_files (SpecDescent)               *)

\* The prefix a call of process_files works on.
Visited(prefix) == normalize_prefix(prefix)

\* C38: the per-folder recursion of process_files descends strictly into
\* sub-folders: the prefix of a nested call lies strictly under the prefix of
\* every call that waits for it, so no prefix is visited again, and the
\* nesting never reaches the depth at which the interpreter gives up.
C38_RecursionDescends ==
    mode = "files" =>
        /\ \A k \in 1..Len(stack) :
               LET inner == IF k = 1 THEN source_prefix ELSE stack[k - 1].source_prefix
               IN  /\ startswith(Visited(inner), Visited(stack[k].source_prefix))
                   /\ Visited(inner) # Visited(stack[k].source_prefix)
        /\ result = "raised" => Calls(UnitOps) # {}

-----------------------------------------------------------------------------
(* Properties of transfer_s3_to_synapse (SpecSynapse)                       *)

\* The steps of one key: the hash is computed only when hashes are asked for.
Steps ==
    IF args.calculate_hashes
    THEN <<"get_s3_file_info", "calculate_md5", "create_s3_file_handle",
           "store_file_in_synapse">>
    ELSE <<"get_s3_file_info", "create_s3_file_handle", "store_file_in_synapse">>

KeyCalls == SelectSeq(calls, LAMBDA c : c.n > 0)

\* The calls made for key n, in the order they were made.
StepsOf(n) ==
    LET made == SelectSeq(KeyCalls, LAMBDA c : c.n = n)
    IN  [k \in 1..Len(made) |-> made[k].op]

\* The keys whose store succeeded.
StoredKeys == {calls[k].n : k \in CallsOk({"store_file_in_synapse"})}

\* C39: in transfer_s3_to_synapse the calls made for a key are the steps
\* file-info, hash, file-handle creation, store in that order, one key after
\* the other; store is never called for a key whose file-info lookup or
\* file-handle creation failed; a failed key does not stop the later keys
\* (when the function returns every key has had its file-info lookup); and
\* the returned success count is the number of keys whose store succeeded,
\* at most the returned total.
C39_KeysGoThroughTheSteps ==
    mode = "synapse" =>
        /\ \A n \in 1..Len(matched_files) :
               StepsOf(n) = SubSeq(Steps, 1, Len(StepsOf(n)))
        /\ \A k \in 1..(Len(KeyCalls) - 1) : KeyCalls[k].n <= KeyCalls[k + 1].n
        /\ \A k \in Calls({"store_file_in_synapse"}) :
               /\ \E j \in CallsOk({"get_s3_file_info"}) : calls[j].n = calls[k].n
               /\ \E j \in CallsOk({"create_s3_file_handle"}) : calls[j].n = calls[k].n
               /\ \A j \in CallsFailed({"get_s3_file_info", "create_s3_file_handle"}) :
                      calls[j].n # calls[k].n
        /\ pc = "returned" =>
               /\ \A n \in 1..Len(matched_files) :
                      \E j \in Calls({"get_s3_file_info"}) : calls[j].n = n
               /\ result = <<Cardinality(StoredKeys), Len(matched_files)>>
               /\ result[1] <= result[2]

\* A key fails at its file-info lookup, the next at its file handle, and the
\* last one is stored.
C39_Witness ==
    /\ mode = "synapse" /\ pc = "returned" /\ result = <<1, 3>>
    /\ args.calculate_hashes
    /\ \E j \in CallsFailed({"get_s3_file_info"}) : calls[j].n = 1
    /\ \E j \in CallsFailed({"create_s3_file_handle"}) : calls[j].n = 2
    /\ \E j \in CallsOk({"store_file_in_synapse"}) : calls[j].n = 3

====
